---- MODULE Spec2Model ----
(***************************************************************************)
(* Kinetic Monte Carlo solver of chombo-discharge: KMCDualState,           *)
(* KMCDualStateReaction, KMCSingleState, KMCSingleStateReaction and the    *)
(* drivers KMCSolver::advanceTau and KMCSolver::advanceHybrid with their   *)
(* step primitives.                                                        *)
(*                                                                         *)
(* Conventions.  Species are numbered from 1 (the code numbers from 0).     *)
(* A time is an integer number of ticks of 1/TimeDen; the sums and         *)
(* differences of times the drivers compute are rounded to Precision       *)
(* significant bits, to nearest, ties to even (Fl), as IEEE arithmetic     *)
(* rounds them to 53.  A propensity is an integer (integer rates; the      *)
(* falling product of k populations is divisible by k!).  Random draws     *)
(* (uniform, Poisson) and the outcome of the LAPACK solve are              *)
(* nondeterministic choices over small sets.                               *)
(*                                                                         *)
(* Spec follows the solver's state through whole calls, with increments    *)
(* small enough that every time is representable.  SpecFloat follows the   *)
(* time arithmetic of the same two loops alone, with increments that are   *)
(* not: there the outcome of a trial (valid or not) is drawn.  SpecOps     *)
(* applies the operations of the state and reaction classes, and           *)
(* partitionReactions and stepSSA, to one state object of either variant,  *)
(* valid or not.  In Spec a call of advanceState returns whatever the      *)
(* state (assertions compiled out, or the single-state variant); in        *)
(* SpecOps a failing CH_assert of KMCDualStateReaction::advanceState       *)
(* either aborts or is compiled out.                                       *)
(* SpecSteps is one call of a stepping function of the solver              *)
(* (stepExplicitEuler, stepMidpoint, stepPRC, getNonCriticalTimeStep,      *)
(* advanceSSA, the residual of stepImplicitEuler) on a valid state, with   *)
(* the solver's own list or a sub-list of it; advanceState returns as in   *)
(* Spec.                                                                   *)
(***************************************************************************)
EXTENDS Integers, Sequences, FiniteSets, TLC

\* ------------------------------------------------------------------ bounds
MaxHalvings == 2
MaxPop == 2
MaxPoisson == 2
MaxX == 0
MaxNewton == 2
MaxNegative == 2
MaxDtDraw == 2
Precision == 3
MaxFirings == 2
MaxOperand == 3

TimeDen == 2 ^ MaxHalvings

\* std::numeric_limits<Real>::max(), as a number of ticks that exceeds every
\* time of the model and can be halved MaxHalvings + 1 times.
RealMax == 2 ^ (MaxHalvings + 1)

\* std::numeric_limits<T>::max() for the integer type T.
TMax == 1000000

NumReactive == 2
NumNonReactive == 1
\* Species of a KMCSingleState object.
NumSpecies == 2

Min(a, b) == IF a <= b THEN a ELSE b
Max(a, b) == IF a >= b THEN a ELSE b
Abs(a) == IF a >= 0 THEN a ELSE -a

\* C++ integer division truncates toward zero.
TruncDiv(a, b) == IF a >= 0 THEN a \div b ELSE -((-a) \div b)

\* ceil(n / d) for d > 0.
CeilDiv(n, d) == -((-n) \div d)

\* The binary exponent of the last place of x >= 0 at Precision bits.
RECURSIVE Exponent(_)
Exponent(x) == IF x < 2 ^ Precision THEN 0 ELSE 1 + Exponent(x \div 2)

\* One unit in the last place of x.
Ulp(x) == 2 ^ Exponent(Abs(x))

\* The result of a Real addition or subtraction whose exact value is x:
\* rounded to Precision significant bits, to nearest, ties to even.
Fl(x) ==
    LET unit == Ulp(x)
        q    == Abs(x) \div unit
        r    == Abs(x) % unit
        up   == 2 * r > unit \/ (2 * r = unit /\ q % 2 = 1)
        mag  == (IF up THEN q + 1 ELSE q) * unit
    IN IF x >= 0 THEN mag ELSE -mag

Range(s) == {s[i] : i \in 1..Len(s)}

RECURSIVE Count(_, _)
Count(s, x) == IF s = <<>> THEN 0
               ELSE (IF Head(s) = x THEN 1 ELSE 0) + Count(Tail(s), x)

RECURSIVE SumSeq(_)
SumSeq(s) == IF s = <<>> THEN 0 ELSE Head(s) + SumSeq(Tail(s))

RECURSIVE factorial(_)
factorial(n) == IF n <= 1 THEN 1 ELSE n * factorial(n - 1)

\* ------------------------------------------------------------ KMCDualState
\* A state: the reactive populations and the non-reactive populations.
KMCDualState(r, nr) == [reactive |-> r, nonReactive |-> nr]

\* for (const auto& p : populations) {if (p < 0) {isValid = false; break;}}
RECURSIVE ValidLoop(_, _, _)
ValidLoop(populations, i, isValid) ==
    IF i > Len(populations) THEN isValid
    ELSE IF populations[i] < 0 THEN FALSE
    ELSE ValidLoop(populations, i + 1, isValid)

\* A plausible slip: the result of the first loop lost when the second starts.
isValidState_SecondLoopOnly(s) == ValidLoop(s.nonReactive, 1, TRUE)

isValidState(s) == ValidLoop(s.nonReactive, 1, ValidLoop(s.reactive, 1, TRUE))

linearOut(s) == s.reactive \o s.nonReactive

\* A plausible slip: the non-reactive part read without the offset.
linearIn_NoOffset(s, v) ==
    [reactive    |-> [i \in 1..Len(s.reactive) |-> v[i]],
     nonReactive |-> [i \in 1..Len(s.nonReactive) |-> v[i]]]

\* linearIn of a vector v on a state with the sizes of s.
linearIn(s, v) ==
    [reactive    |-> [i \in 1..Len(s.reactive) |-> v[i]],
     nonReactive |-> [i \in 1..Len(s.nonReactive) |-> v[Len(s.reactive) + i]]]

\* ---------------------------------------------------- KMCDualStateReaction
\* A reaction: reactants, reactive products, non-reactive products, rate.
KMCDualStateReaction(lhs, rhs, rhsNR, rate) ==
    [lhsReactives |-> lhs, rhsReactives |-> rhs, rhsNonReactives |-> rhsNR,
     rate |-> rate]

\* computeStateChanges: the maps species -> net change, whose keys are the
\* species that occur in the reaction.
EmptyMap == [s \in {} |-> 0]

\* for (const auto& r : list) {if (map.find(r) == map.end()) map.emplace(r, delta);
\* else map[r] += delta;}
RECURSIVE StateChangeLoop(_, _, _, _)
StateChangeLoop(map, list, i, delta) ==
    IF i > Len(list) THEN map
    ELSE LET r == list[i]
         IN StateChangeLoop(
                IF r \in DOMAIN map THEN [map EXCEPT ![r] = @ + delta]
                ELSE [s \in DOMAIN map \cup {r} |-> IF s = r THEN delta ELSE map[s]],
                list, i + 1, delta)

m_reactiveStateChange(rx) ==
    StateChangeLoop(StateChangeLoop(EmptyMap, rx.lhsReactives, 1, -1),
                    rx.rhsReactives, 1, 1)

m_nonReactiveStateChange(rx) == StateChangeLoop(EmptyMap, rx.rhsNonReactives, 1, 1)

\* computeStateChanges: 1 / m_propensityFactor, the product of k! over the
\* distinct reactants of multiplicity k.
RECURSIVE FactorialProduct(_, _)
FactorialProduct(lhs, species) ==
    IF species = {} THEN 1
    ELSE LET s == CHOOSE x \in species : TRUE
         IN factorial(Count(lhs, s)) * FactorialProduct(lhs, species \ {s})

invPropensityFactor(rx) == FactorialProduct(rx.lhsReactives, Range(rx.lhsReactives))

getStateChange(rx, species) ==
    IF species \in DOMAIN m_reactiveStateChange(rx)
    THEN m_reactiveStateChange(rx)[species] ELSE 0

getReactants(rx) == rx.lhsReactives

population(rx, reactant, s) == s.reactive[reactant]

\* A plausible slip: the population not decremented after each factor.
RECURSIVE PropensityLoop_NoDecrement(_, _, _)
PropensityLoop_NoDecrement(lhs, rs, i) ==
    IF i > Len(lhs) THEN 1
    ELSE rs[lhs[i]] * PropensityLoop_NoDecrement(lhs, rs, i + 1)

\* propensity: the loop A *= reactiveState[r]; reactiveState[r]--.
RECURSIVE PropensityLoop(_, _, _)
PropensityLoop(lhs, rs, i) ==
    IF i > Len(lhs) THEN 1
    ELSE rs[lhs[i]] * PropensityLoop(lhs, [rs EXCEPT ![lhs[i]] = @ - 1], i + 1)

propensity(rx, s) ==
    (rx.rate * PropensityLoop(rx.lhsReactives, s.reactive, 1)) \div invPropensityFactor(rx)

\* A plausible slip: the population not divided by the number consumed per firing.
RECURSIVE CriticalLoop_NoDivision(_, _, _, _)
CriticalLoop_NoDivision(rx, s, keys, Lj) ==
    IF keys = {} THEN Lj
    ELSE LET rI   == CHOOSE x \in keys : TRUE
             nuIJ == m_reactiveStateChange(rx)[rI]
         IN CriticalLoop_NoDivision(rx, s, keys \ {rI},
                IF nuIJ < 0 THEN Min(Lj, s.reactive[rI]) ELSE Lj)

RECURSIVE CriticalLoop(_, _, _, _)
CriticalLoop(rx, s, keys, Lj) ==
    IF keys = {} THEN Lj
    ELSE LET rI   == CHOOSE x \in keys : TRUE
             nuIJ == m_reactiveStateChange(rx)[rI]
         IN CriticalLoop(rx, s, keys \ {rI},
                IF nuIJ < 0 THEN Min(Lj, TruncDiv(s.reactive[rI], Abs(nuIJ))) ELSE Lj)

computeCriticalNumberOfReactions(rx, s) ==
    CriticalLoop(rx, s, DOMAIN m_reactiveStateChange(rx), TMax)

advanceState(rx, s, numReactions) ==
    [reactive    |-> [i \in 1..Len(s.reactive) |->
                        s.reactive[i] + numReactions * getStateChange(rx, i)],
     nonReactive |-> [i \in 1..Len(s.nonReactive) |->
                        s.nonReactive[i] +
                        (IF i \in DOMAIN m_nonReactiveStateChange(rx)
                         THEN numReactions * m_nonReactiveStateChange(rx)[i] ELSE 0)]]

\* ---------------------------------------------------------- KMCSingleState
\* A single-class state is its population vector m_state.
isValidStateSingle(m) == ValidLoop(m, 1, TRUE)

\* return m_state;
linearOutSingle(m) == m

\* m_state = a_linearizedState;
linearInSingle(m, v) == v

\* -------------------------------------------------- KMCSingleStateReaction
\* A reaction: reactants, products, rate.
KMCSingleStateReaction(reactants, products, rate) ==
    [reactants |-> reactants, products |-> products, rate |-> rate]

m_stateChange(rx) ==
    StateChangeLoop(StateChangeLoop(EmptyMap, rx.reactants, 1, -1), rx.products, 1, 1)

\* factorial(k) as computeStateChanges calls it: k!.
factorialSingle(n) == IF n <= 1 THEN 1 ELSE n * factorial(n - 1)

\* 1 / m_propensityFactor: the product of k! over the distinct reactants.
RECURSIVE FactorialProductSingle(_, _)
FactorialProductSingle(reactants, species) ==
    IF species = {} THEN 1
    ELSE LET s == CHOOSE x \in species : TRUE
         IN factorialSingle(Count(reactants, s)) *
            FactorialProductSingle(reactants, species \ {s})

invPropensityFactorSingle(rx) ==
    FactorialProductSingle(rx.reactants, Range(rx.reactants))

\* State tmp = a_state; for (r : m_reactants) {A *= tmp[r]; tmp[r]--;}
propensitySingle(rx, m) ==
    (rx.rate * PropensityLoop(rx.reactants, m, 1)) \div invPropensityFactorSingle(rx)

RECURSIVE CriticalLoopSingle(_, _, _, _)
CriticalLoopSingle(rx, m, keys, Lj) ==
    IF keys = {} THEN Lj
    ELSE LET rI   == CHOOSE x \in keys : TRUE
             nuIJ == m_stateChange(rx)[rI]
         IN CriticalLoopSingle(rx, m, keys \ {rI},
                IF nuIJ < 0 THEN Min(Lj, TruncDiv(m[rI], Abs(nuIJ))) ELSE Lj)

computeCriticalNumberOfReactionsSingle(rx, m) ==
    CriticalLoopSingle(rx, m, DOMAIN m_stateChange(rx), TMax)

advanceStateSingle(rx, m, numReactions) ==
    [i \in 1..Len(m) |->
        IF i \in DOMAIN m_stateChange(rx)
        THEN m[i] + numReactions * m_stateChange(rx)[i] ELSE m[i]]

\* --------------------------------------------------------------- KMCSolver
propensities(s, reactions) ==
    [i \in 1..Len(reactions) |-> propensity(reactions[i], s)]

totalPropensity(s, reactions) == SumSeq(propensities(s, reactions))

\* A plausible slip: a reaction with exactly Ncrit firings left taken as critical.
IsCritical_Inclusive(rx, s, Ncrit) == computeCriticalNumberOfReactions(rx, s) <= Ncrit

IsCritical(rx, s, Ncrit) == computeCriticalNumberOfReactions(rx, s) < Ncrit

\* A plausible slip: a reaction with exactly Ncrit firings left put in neither list.
partitionReactions_OmitsBoundary(s, reactions, Ncrit) ==
    << SelectSeq(reactions, LAMBDA rx : computeCriticalNumberOfReactions(rx, s) < Ncrit),
       SelectSeq(reactions, LAMBDA rx : computeCriticalNumberOfReactions(rx, s) > Ncrit) >>

\* partitionReactions: <<critical, non-critical>>, each in list order.
partitionReactions(s, reactions, Ncrit) ==
    << SelectSeq(reactions, LAMBDA rx : IsCritical(rx, s, Ncrit)),
       SelectSeq(reactions, LAMBDA rx : ~IsCritical(rx, s, Ncrit)) >>

\* Random::getUniformReal01 as used by stepSSA: the thresholds u * A the
\* comparison sumProp >= u * A can see, for u anywhere in [0, 1].  With
\* integer propensities the integers between 0 and A reach every outcome.
getUniformReal01Times(A) == Min(0, A)..Max(0, A)

\* log(1.0 / u) for u = min + Random::getUniformReal01() in (0, 1]: zero
\* for u = 1, otherwise any positive real (here up to MaxDtDraw ticks, or a
\* value beyond every time of the model).
LogInverseUniform == (0..MaxDtDraw) \cup {RealMax}

\* getCriticalTimeStep(Real): log(1/u) / a_totalPropensity.  A = 0 stands
\* for a total propensity of numeric_limits<Real>::min(): the quotient is
\* zero or beyond every time.  For A >= 1 every value of LogInverseUniform
\* is a quotient; a negative A (propensities of a state with a negative
\* population) gives the negated values.
getCriticalTimeStep(A) ==
    IF A = 0 THEN {0, RealMax}
    ELSE IF A > 0 THEN LogInverseUniform
    ELSE {-x : x \in LogInverseUniform}

\* getCriticalTimeStep(Real) called with exactly 0.0 (the SSA branch of
\* advanceHybrid adds no floor): x / 0.0 is +inf, and 0.0 / 0.0 is NaN; no
\* comparison "dtSSA + dtReact < curDt" succeeds with either.
getCriticalTimeStepNoFloor(A) ==
    IF A = 0 THEN {RealMax}
    ELSE IF A > 0 THEN LogInverseUniform
    ELSE {-x : x \in LogInverseUniform}

\* The default m_eps, numeric_limits<Real>::max().
EpsMax == RealMax

\* A positive real n / d (in time units) as ticks: at least one tick, at
\* most RealMax.
Ticks(n, d) == Min(RealMax, Max(1, (n * TimeDen) \div d))

\* std::unique: removes adjacent duplicates only.
RECURSIVE Unique(_)
Unique(s) ==
    IF Len(s) <= 1 THEN s
    ELSE IF s[1] = s[2] THEN Unique(Tail(s))
         ELSE <<s[1]>> \o Unique(Tail(s))

RECURSIVE AllReactants(_)
AllReactants(reactions) ==
    IF reactions = <<>> THEN <<>>
    ELSE getReactants(Head(reactions)) \o AllReactants(Tail(reactions))

\* The per-reactant bound min(dt1, dt2) of getNonCriticalTimeStep, in ticks.
\* f = max(eps * Xi / 4, 1) is carried as f4 = 4 f.
SpeciesTimeStep(s, reactions, props, reactant, eps) ==
    LET Xi     == population(reactions[1], reactant, s)
        mu     == SumSeq([i \in 1..Len(reactions) |->
                            Abs(getStateChange(reactions[i], reactant) * props[i])])
        sigma2 == SumSeq([i \in 1..Len(reactions) |->
                            Abs(getStateChange(reactions[i], reactant)
                                * getStateChange(reactions[i], reactant) * props[i])])
        f4     == Max(eps * Xi, 4)
        dt1    == IF mu > 0
                  THEN (IF eps = EpsMax THEN RealMax ELSE Ticks(f4, 4 * mu))
                  ELSE RealMax
        dt2    == IF sigma2 > 0
                  THEN (IF eps = EpsMax THEN RealMax ELSE Ticks(f4 * f4, 16 * sigma2))
                  ELSE RealMax
    IN IF Xi > 0 THEN Min(dt1, dt2) ELSE RealMax

RECURSIVE NonCriticalLoop(_, _, _, _, _, _)
NonCriticalLoop(s, reactions, props, reactants, eps, dt) ==
    IF reactants = <<>> THEN dt
    ELSE NonCriticalLoop(s, reactions, props, Tail(reactants), eps,
             Min(dt, SpeciesTimeStep(s, reactions, props, Head(reactants), eps)))

getNonCriticalTimeStep(s, nonCriticalReactions, nonCriticalPropensities, eps) ==
    IF Len(nonCriticalReactions) > 0
    THEN NonCriticalLoop(s, nonCriticalReactions, nonCriticalPropensities,
                         Unique(AllReactants(nonCriticalReactions)), eps, RealMax)
    ELSE RealMax

\* stepSSA: the first index whose cumulative propensity reaches uA = u * A.
\* When no index does, r keeps numeric_limits<size_t>::max() and
\* a_reactions[r] is read out of bounds: any reaction may be what fires.
RECURSIVE PartialSum(_, _)
PartialSum(props, i) == IF i = 0 THEN 0 ELSE props[i] + PartialSum(props, i - 1)

SSAReached(props, uA, i) == PartialSum(props, i) >= uA

SSAIndices(props, uA) ==
    LET hits == {i \in 1..Len(props) : SSAReached(props, uA, i)}
    IN IF hits = {} THEN 1..Len(props)
       ELSE {CHOOSE i \in hits : \A j \in hits : i <= j}

\* The reactions stepSSA(state, reactions, propensities) can fire, as indices.
stepSSA(reactions, props) ==
    IF Len(reactions) > 0
    THEN UNION {SSAIndices(props, uA) : uA \in getUniformReal01Times(SumSeq(props))}
    ELSE {}

\* Random::getPoisson(mean): zero for a zero mean, any count otherwise (a
\* negative mean is outside the distribution's domain: any count).
getPoisson(mean) == IF mean = 0 THEN {0} ELSE 0..MaxPoisson

\* The vectors of firing counts, one draw per reaction.
PoissonVectors(means) ==
    {n \in [1..Len(means) -> 0..MaxPoisson] :
        \A i \in 1..Len(means) : n[i] \in getPoisson(means[i])}

\* for (i ...) a_reactions[i]->advanceState(a_state, n[i])
RECURSIVE AdvanceAll(_, _, _, _)
AdvanceAll(reactions, s, n, i) ==
    IF i > Len(reactions) THEN s
    ELSE AdvanceAll(reactions, advanceState(reactions[i], s, n[i]), n, i + 1)

\* The means propensities[i] * a_dt handed to Random::getPoisson (times TimeDen).
ExplicitEulerMeans(s, reactions, dt) ==
    LET props == propensities(s, reactions)
    IN [i \in 1..Len(reactions) |-> props[i] * dt]

stepExplicitEuler(s, reactions, dt) ==
    {AdvanceAll(reactions, s, n, 1) :
        n \in PoissonVectors(ExplicitEulerMeans(s, reactions, dt))}

\* The predictor state of stepMidpoint: ceil(0.5 * a_j * dt) firings of each.
Xdagger(s, reactions, dt) ==
    LET props == propensities(s, reactions)
    IN AdvanceAll(reactions, s,
           [i \in 1..Len(reactions) |-> CeilDiv(props[i] * dt, 2 * TimeDen)], 1)

\* propensities = this->propensities(Xdagger, a_reactions), and the means
\* propensities[i] * a_dt (times TimeDen).
MidpointMeans(s, reactions, dt) ==
    LET props == propensities(Xdagger(s, reactions, dt), reactions)
    IN [i \in 1..Len(reactions) |-> props[i] * dt]

\* A plausible slip: the firings applied to the predictor state.
MidpointApply_OnPredictor(s, reactions, dt, n) ==
    AdvanceAll(reactions, Xdagger(s, reactions, dt), n, 1)

\* The last loop of stepMidpoint: a_reactions[i]->advanceState(a_state, n[i]).
MidpointApply(s, reactions, dt, n) == AdvanceAll(reactions, s, n, 1)

stepMidpoint(s, reactions, dt) ==
    {MidpointApply(s, reactions, dt, n) :
        n \in PoissonVectors(MidpointMeans(s, reactions, dt))}

\* stepPRC: aj[j] scaled by 2 * TimeDen, so that the correction
\* 0.5 * dt * ak[k] * etajk is an integer.
PRCPropensity(s, reactions, dt, j) ==
    LET ak == propensities(s, reactions)
    IN 2 * TimeDen * ak[j] +
       SumSeq([k \in 1..Len(reactions) |->
                  dt * ak[k] * (propensity(reactions[j], advanceState(reactions[k], s, 1)) - ak[j])])

\* The means aj[i] * a_dt of stepPRC (times 2 * TimeDen * TimeDen).
PRCMeans(s, reactions, dt) ==
    [j \in 1..Len(reactions) |-> PRCPropensity(s, reactions, dt, j) * dt]

stepPRC(s, reactions, dt) ==
    {AdvanceAll(reactions, s, n, 1) : n \in PoissonVectors(PRCMeans(s, reactions, dt))}

\* ------------------------------------------------------------------ inputs
R_decay == KMCDualStateReaction(<<1>>, <<>>, <<>>, 1)       \* A -> 0
R_dimer == KMCDualStateReaction(<<1, 1>>, <<2>>, <<>>, 1)   \* A + A -> B
R_emit  == KMCDualStateReaction(<<2>>, <<1>>, <<1>>, 1)     \* B -> A + photon

ReactionLists == {<<>>, <<R_decay, R_emit>>, <<R_dimer, R_emit>>}

InitialStates ==
    {KMCDualState(r, [i \in 1..NumNonReactive |-> 0]) :
        r \in {<<MaxPop, 0>>, <<0, 1>>, <<MaxPop, 1>>}}

\* KMCLeapPropagator, and a selector value outside the enumeration.
KMCLeapPropagator == {"ExplicitEuler", "Midpoint", "PRC", "ImplicitEuler"}
Selectors == KMCLeapPropagator \cup {"Unknown"}

\* The parameter sets setSolverParameters is called with.
ParameterSets ==
    {[Ncrit |-> 2, numSSA |-> 2, maxIter |-> MaxNewton, eps |-> 0, SSAlim |-> 3],
     [Ncrit |-> 2, numSSA |-> 0, maxIter |-> 1, eps |-> EpsMax, SSAlim |-> 3],
     [Ncrit |-> 2, numSSA |-> 2, maxIter |-> MaxNewton, eps |-> EpsMax, SSAlim |-> 0]}

\* The real vectors a Newton iterate can round to.
Iterates == [1..(NumReactive + NumNonReactive) -> (-1)..MaxX]

NoState == KMCDualState([i \in 1..NumReactive |-> 0], [i \in 1..NumNonReactive |-> 0])
NoTrial == [branch |-> "none", base |-> NoState, fired |-> <<>>, dt |-> 0]
NoSingleState == [i \in 1..NumSpecies |-> 0]
NoOp == [name |-> "none", variant |-> "dual", reactions |-> <<>>, n |-> 0, u |-> 0,
         Ncrit |-> 0, v |-> <<>>, before |-> NoState, origin |-> NoState, out |-> 0,
         undo |-> FALSE, completed |-> TRUE]
NoNewton == [k |-> 0, X |-> linearOut(NoState), converged |-> TRUE, met |-> FALSE,
             INFO |-> 0, active |-> FALSE]

\* ------------------------------------------------------------------- state
VARIABLES
    pc,                  \* position of the running call
    driver,              \* "none", "tau" (advanceTau) or "hybrid" (advanceHybrid)
    m_reactions,         \* the solver's reaction list
    m_Ncrit, m_numSSA, m_maxIter, m_eps, m_SSAlim,
    a_state,             \* the caller's state
    a_dt,                \* the requested increment, in ticks
    a_leapPropagator,
    curTime, curDt,      \* locals of the drivers
    state,               \* the trial copy
    criticalReactions, nonCriticalReactions, propensitiesCrit,
    dtCrit, dtNonCrit,
    dtSSA, numSSA,       \* locals of the SSA branch
    leapReactions,       \* the list handed to the propagator
    newton,              \* locals of stepImplicitEuler (kept, inactive, as history
                         \* of the last call until the next outer pass)
    trial,               \* history: the committed state when the outer pass began
                         \* (base), the branch taken, the reactions stepSSA fired
    state0,              \* history: the caller's state when the call started
    m_state,             \* a KMCSingleState object (its population vector)
    op                   \* history: the last operation applied to a state object,
                         \* with its arguments, the object before it and its result

params == <<m_Ncrit, m_numSSA, m_maxIter, m_eps, m_SSAlim>>
call   == <<driver, m_reactions, a_dt, a_leapPropagator, state0>>
hybrid == <<criticalReactions, nonCriticalReactions, propensitiesCrit, dtCrit, dtNonCrit>>
ssa    == <<dtSSA, numSSA>>
operands == <<m_state, op>>

vars == <<pc, driver, m_reactions, m_Ncrit, m_numSSA, m_maxIter, m_eps, m_SSAlim,
          a_state, a_dt, a_leapPropagator, curTime, curDt, state,
          criticalReactions, nonCriticalReactions, propensitiesCrit,
          dtCrit, dtNonCrit, dtSSA, numSSA, leapReactions, newton, trial, state0,
          m_state, op>>

\* KMCSolver::KMCSolver(): the default parameters (m_maxIter is 100 in the
\* code; the model iterates at most MaxNewton times).
Init ==
    /\ pc = "idle"
    /\ driver = "none"
    /\ m_reactions = <<>>
    /\ m_Ncrit = 0 /\ m_numSSA = 0 /\ m_maxIter = MaxNewton /\ m_eps = EpsMax /\ m_SSAlim = 0
    /\ a_state = NoState
    /\ a_dt = 0
    /\ a_leapPropagator = "ExplicitEuler"
    /\ curTime = 0 /\ curDt = 0
    /\ state = NoState
    /\ criticalReactions = <<>> /\ nonCriticalReactions = <<>> /\ propensitiesCrit = <<>>
    /\ dtCrit = 0 /\ dtNonCrit = 0
    /\ dtSSA = 0 /\ numSSA = 0
    /\ leapReactions = <<>>
    /\ newton = NoNewton
    /\ trial = NoTrial
    /\ state0 = NoState
    /\ m_state = NoSingleState
    /\ op = NoOp

\* KMCSolver::define: sets the list and resets the parameters to the defaults.
define ==
    /\ pc = "idle"
    /\ \E reactions \in ReactionLists : m_reactions' = reactions
    /\ m_Ncrit' = 0 /\ m_numSSA' = 0 /\ m_maxIter' = MaxNewton /\ m_eps' = EpsMax
    /\ m_SSAlim' = 0
    /\ pc' = "defined"
    /\ UNCHANGED <<driver, a_state, a_dt, a_leapPropagator, curTime, curDt, state,
                   hybrid, ssa, leapReactions, newton, trial, state0>>
    /\ UNCHANGED operands

setSolverParameters ==
    /\ pc = "defined"
    /\ \E p \in ParameterSets :
          /\ m_Ncrit' = p.Ncrit /\ m_numSSA' = p.numSSA /\ m_maxIter' = p.maxIter
          /\ m_eps' = p.eps /\ m_SSAlim' = p.SSAlim
    /\ pc' = "ready"
    /\ UNCHANGED <<driver, m_reactions, a_state, a_dt, a_leapPropagator, curTime, curDt,
                   state, hybrid, ssa, leapReactions, newton, trial, state0>>
    /\ UNCHANGED operands

\* ------------------------------------------------------------- advanceTau
\* The call, up to the first test of the outer loop.
advanceTau ==
    /\ pc \in {"defined", "ready"}
    /\ \E s \in InitialStates, sel \in Selectors :
          /\ a_state' = s /\ state0' = s
          /\ a_leapPropagator' = sel
    /\ a_dt' = TimeDen
    /\ driver' = "tau"
    /\ IF Len(m_reactions) > 0
       THEN /\ curTime' = 0 /\ curDt' = a_dt' /\ pc' = "tau_while"
       ELSE /\ UNCHANGED <<curTime, curDt>> /\ pc' = "done"
    /\ UNCHANGED <<m_reactions, params, state, hybrid, ssa, leapReactions, newton, trial>>
    /\ UNCHANGED operands

\* while (curTime < a_dt) { curDt = a_dt - curTime; valid = false; ...
TauWhile ==
    /\ pc = "tau_while"
    /\ IF curTime < a_dt
       THEN /\ curDt' = Fl(a_dt - curTime) /\ pc' = "tau_trial"
       ELSE /\ UNCHANGED curDt /\ pc' = "done"
    /\ trial' = [NoTrial EXCEPT !.base = a_state]
    /\ newton' = NoNewton
    /\ UNCHANGED <<call, m_Ncrit, m_numSSA, m_maxIter, m_eps, m_SSAlim, a_state, curTime,
                   state, hybrid, ssa, leapReactions>>
    /\ UNCHANGED operands

\* while (!valid) { State state = a_state; switch (a_leapPropagator) ...
TauTrial ==
    /\ pc = "tau_trial"
    /\ state' = a_state
    /\ leapReactions' = m_reactions
    /\ trial' = [branch |-> "leap", base |-> trial.base, fired |-> <<>>, dt |-> curDt]
    /\ pc' = "leap"
    /\ UNCHANGED <<call, params, a_state, curTime, curDt, hybrid, ssa, newton>>
    /\ UNCHANGED operands

\* A plausible slip: the trial is assigned before it is validated.
TauCheck_CommitsUnchecked ==
    /\ pc = "check" /\ driver = "tau"
    /\ a_state' = state
    /\ IF isValidState(state)
       THEN /\ curTime' = Fl(curTime + curDt) /\ UNCHANGED curDt /\ pc' = "tau_while"
       ELSE /\ curDt' = curDt \div 2 /\ UNCHANGED curTime /\ pc' = "tau_trial"
    /\ state' = NoState
    /\ UNCHANGED <<call, params, hybrid, ssa, leapReactions, newton, trial>>
    /\ UNCHANGED operands

\* valid = state.isValidState(); if (valid) {a_state = state; curTime += curDt;}
\* else {curDt *= 0.5;}
TauCheck ==
    /\ pc = "check" /\ driver = "tau"
    /\ IF isValidState(state)
       THEN /\ a_state' = state /\ curTime' = Fl(curTime + curDt) /\ UNCHANGED curDt
            /\ pc' = "tau_while"
       ELSE /\ curDt' = curDt \div 2 /\ UNCHANGED <<a_state, curTime>>
            /\ pc' = "tau_trial"
    /\ state' = NoState
    /\ UNCHANGED <<call, params, hybrid, ssa, leapReactions, newton, trial>>
    /\ UNCHANGED operands

\* ------------------------------------------------------ the leap propagators
\* A trial may come out invalid only while the quantity the driver halves
\* on rejection is an even number of ticks.  The trial copy ends with the
\* pass (TauCheck, HybridCheck); the record of the last stepImplicitEuler is
\* kept as history until the next outer pass.
CanHalve ==
    IF driver = "tau" THEN curDt >= 2 /\ curDt % 2 = 0
    ELSE dtNonCrit >= 2 /\ dtNonCrit % 2 = 0

LeapFrame == <<call, params, a_state, curTime, curDt, hybrid, ssa, leapReactions, trial>>

StepExplicitEuler ==
    /\ pc = "leap" /\ a_leapPropagator = "ExplicitEuler"
    /\ \E out \in stepExplicitEuler(state, leapReactions, curDt) :
          /\ isValidState(out) \/ CanHalve
          /\ state' = out
    /\ pc' = "check"
    /\ UNCHANGED <<LeapFrame, newton>>
    /\ UNCHANGED operands

StepMidpoint ==
    /\ pc = "leap" /\ a_leapPropagator = "Midpoint"
    /\ \E out \in stepMidpoint(state, leapReactions, curDt) :
          /\ isValidState(out) \/ CanHalve
          /\ state' = out
    /\ pc' = "check"
    /\ UNCHANGED <<LeapFrame, newton>>
    /\ UNCHANGED operands

StepPRC ==
    /\ pc = "leap" /\ a_leapPropagator = "PRC"
    /\ \E out \in stepPRC(state, leapReactions, curDt) :
          /\ isValidState(out) \/ CanHalve
          /\ state' = out
    /\ pc' = "check"
    /\ UNCHANGED <<LeapFrame, newton>>
    /\ UNCHANGED operands

\* advanceTau, switch default: break.  (advanceHybrid never gets here.)
StepDefault ==
    /\ pc = "leap" /\ a_leapPropagator \notin KMCLeapPropagator
    /\ pc' = "check"
    /\ UNCHANGED <<LeapFrame, state, newton>>
    /\ UNCHANGED operands

\* advanceTau(explicitEulerState, a_reactions, a_dt, ExplicitEuler) as called
\* by compConstantTerm: the states the nested call can return (remaining
\* time rem, current trial size dt).
RECURSIVE advanceTauExplicitEuler(_, _, _, _)
advanceTauExplicitEuler(s, reactions, rem, dt) ==
    IF Len(reactions) = 0 \/ rem <= 0 THEN {s}
    ELSE UNION {
        IF isValidState(out)
        THEN (IF rem - dt <= 0 THEN {out}
              ELSE advanceTauExplicitEuler(out, reactions, rem - dt, rem - dt))
        ELSE (IF dt >= 2 /\ dt % 2 = 0
              THEN advanceTauExplicitEuler(s, reactions, rem, dt \div 2)
              ELSE {})
        : out \in stepExplicitEuler(s, reactions, dt)}

\* stepImplicitEuler up to the Newton loop: compConstantTerm sets X to the
\* explicit-Euler state; converged = true.
StepImplicitEulerBegin ==
    /\ pc = "leap" /\ a_leapPropagator = "ImplicitEuler"
    /\ \E eulerOut \in advanceTauExplicitEuler(state, leapReactions, curDt, curDt) :
          newton' = [k |-> 0, X |-> linearOut(eulerOut), converged |-> TRUE,
                     met |-> FALSE, INFO |-> 0, active |-> TRUE]
    /\ pc' = "newton"
    /\ UNCHANGED <<LeapFrame, state>>
    /\ UNCHANGED operands

\* One pass of for (k = 0; k < m_maxIter; k++): the Jacobian, dgesv_, then
\* either the break on INFO != 0, or the update of X and the test
\* norm / initNorm < m_exitTol.  The values LAPACK and the residual yield
\* are drawn: INFO, the iterate, and whether the test succeeds.  (With no
\* reaction the Jacobian is the identity and the solve cannot fail.)
NewtonIterate ==
    /\ pc = "newton" /\ newton.k < m_maxIter
    /\ \/ /\ CanHalve /\ Len(leapReactions) > 0
          /\ newton' = [newton EXCEPT !.INFO = 1, !.converged = FALSE]
          /\ pc' = "newton_out"
       \/ \E X \in Iterates, met \in BOOLEAN :
             /\ CanHalve \/ isValidState(linearIn(state, X))
             /\ newton' = [newton EXCEPT !.INFO = 0, !.X = X, !.met = met,
                                         !.k = IF met THEN @ ELSE @ + 1]
             /\ pc' = IF met THEN "newton_out" ELSE "newton"
    /\ UNCHANGED <<LeapFrame, state>>
    /\ UNCHANGED operands

\* The rest of stepImplicitEuler, after the loop: round X, or write -1 to
\* every entry when converged is false; a_state.linearIn(outputState).
\* (the variant below is a plausible slip: the iterate returned whatever
\* converged says.)
NewtonOutput_KeepsIterate(nw) == nw.X

NewtonOutput(nw) ==
    IF nw.converged THEN nw.X ELSE [i \in 1..Len(nw.X) |-> -1]

StepImplicitEulerEnd ==
    /\ \/ pc = "newton_out"
       \/ pc = "newton" /\ ~(newton.k < m_maxIter)
    /\ state' = linearIn(state, NewtonOutput(newton))
    /\ newton' = [newton EXCEPT !.active = FALSE]
    /\ pc' = "check"
    /\ UNCHANGED LeapFrame
    /\ UNCHANGED operands

\* ----------------------------------------------------------- advanceHybrid
\* advanceHybrid(State, ReactionList, Real, KMCLeapPropagator): the switch.
advanceHybrid ==
    /\ pc \in {"defined", "ready"}
    /\ \E s \in InitialStates, sel \in Selectors :
          /\ a_state' = s /\ state0' = s
          /\ a_leapPropagator' = sel
          /\ pc' = IF sel \in KMCLeapPropagator THEN "hyb_while" ELSE "aborted"
    /\ a_dt' = TimeDen
    /\ driver' = "hybrid"
    /\ curTime' = 0
    /\ UNCHANGED <<m_reactions, params, curDt, state, hybrid, ssa, leapReactions,
                   newton, trial>>
    /\ UNCHANGED operands

\* while (curTime < a_dt) { partition; propensities; dtCrit; dtNonCrit;
\* validStep = false; ...
HybridWhile ==
    /\ pc = "hyb_while"
    /\ curTime >= -RealMax
    /\ IF curTime < a_dt
       THEN LET part == partitionReactions(a_state, m_reactions, m_Ncrit)
                pCrit == propensities(a_state, part[1])
                pNon  == propensities(a_state, part[2])
            IN /\ criticalReactions' = part[1]
               /\ nonCriticalReactions' = part[2]
               /\ propensitiesCrit' = pCrit
               /\ dtCrit' \in getCriticalTimeStep(SumSeq(pCrit))
               /\ dtNonCrit' = getNonCriticalTimeStep(a_state, part[2], pNon, m_eps)
               /\ pc' = "hyb_trial"
       ELSE /\ UNCHANGED hybrid /\ pc' = "done"
    /\ trial' = [NoTrial EXCEPT !.base = a_state]
    /\ newton' = NoNewton
    /\ UNCHANGED <<call, params, a_state, curTime, curDt, state, ssa, leapReactions>>
    /\ UNCHANGED operands

\* A plausible slip: the whole list handed to the propagator.
PropagatorList_All(all, critical, nonCritical) == all

\* a_propagator(state, nonCriticalReactions, curDt)
PropagatorList(all, critical, nonCritical) == nonCritical

\* A plausible slip: one SSA step too many.
SSAContinue_OffByOne(dtS, dt, n, maxN) == dtS < dt /\ n <= maxN

\* while (dtSSA < curDt && numSSA < m_numSSA)
SSAContinue(dtS, dt, n, maxN) == dtS < dt /\ n < maxN

\* A plausible slip: the remaining time left out of the minimum.
HybridTimeStep_NoRemaining(remaining, dtC, dtN) == Min(dtC, dtN)

\* curDt = std::min(a_dt - curTime, std::min(dtCrit, dtNonCrit))
HybridTimeStep(remaining, dtC, dtN) == Min(remaining, Min(dtC, dtN))

\* while (!validStep) { State state = a_state; curDt = min(...);
\* nonCriticalOnly = ...; and the choice of the branch.
HybridTrial ==
    /\ pc = "hyb_trial"
    /\ state' = a_state
    /\ curDt' = HybridTimeStep(Fl(a_dt - curTime), dtCrit, dtNonCrit)
    /\ LET nonCriticalOnly == \/ dtNonCrit < dtCrit
                              \/ Len(criticalReactions) = 0
                              \/ dtCrit > Fl(a_dt - curTime)
           A == totalPropensity(a_state, m_reactions)
       IN IF nonCriticalOnly
          THEN IF A * curDt' < m_SSAlim * TimeDen
               THEN /\ dtSSA' = 0 /\ numSSA' = 0
                    /\ trial' = [branch |-> "ssa", base |-> trial.base, fired |-> <<>>,
                                 dt |-> curDt']
                    /\ pc' = "hyb_ssa"
                    /\ UNCHANGED leapReactions
               ELSE /\ leapReactions' = PropagatorList(m_reactions, criticalReactions,
                                                      nonCriticalReactions)
                    /\ trial' = [branch |-> "leap", base |-> trial.base, fired |-> <<>>,
                                 dt |-> curDt']
                    /\ pc' = "leap"
                    /\ UNCHANGED ssa
          ELSE /\ leapReactions' = PropagatorList(m_reactions, criticalReactions,
                                                      nonCriticalReactions)
               /\ trial' = [branch |-> "critical", base |-> trial.base, fired |-> <<>>,
                            dt |-> curDt']
               /\ pc' = "hyb_critical"
               /\ UNCHANGED ssa
    /\ UNCHANGED <<call, params, a_state, curTime, hybrid, newton>>
    /\ UNCHANGED operands

\* A population of the caller's state is followed down to -MaxNegative.
Explored(s) ==
    /\ \A i \in 1..Len(s.reactive) : s.reactive[i] >= -MaxNegative
    /\ \A i \in 1..Len(s.nonReactive) : s.nonReactive[i] >= -MaxNegative

\* A plausible slip: the critical reaction fired on the caller's state.
HybridCritical_OnCallerState ==
    /\ pc = "hyb_critical"
    /\ \E r \in stepSSA(criticalReactions, propensitiesCrit) :
          /\ a_state' = advanceState(criticalReactions[r], a_state, 1)
          /\ Explored(a_state')
          /\ trial' = [trial EXCEPT !.fired = Append(@, criticalReactions[r])]
    /\ pc' = "leap"
    /\ UNCHANGED <<call, params, state, curTime, curDt, hybrid, ssa, leapReactions, newton>>
    /\ UNCHANGED operands

\* The critical branch: this->stepSSA(state, criticalReactions, propensitiesCrit).
HybridCritical ==
    /\ pc = "hyb_critical"
    /\ \E r \in stepSSA(criticalReactions, propensitiesCrit) :
          /\ state' = advanceState(criticalReactions[r], state, 1)
          /\ trial' = [trial EXCEPT !.fired = Append(@, criticalReactions[r])]
    /\ pc' = "leap"
    /\ UNCHANGED <<call, params, a_state, curTime, curDt, hybrid, ssa, leapReactions, newton>>
    /\ UNCHANGED operands

\* The SSA branch: one pass of while (dtSSA < curDt && numSSA < m_numSSA), or
\* the statements after it: validStep = true; curTime += dtSSA.
HybridSSA ==
    /\ pc = "hyb_ssa"
    /\ IF SSAContinue(dtSSA, curDt, numSSA, m_numSSA)
       THEN LET props == propensities(a_state, m_reactions)
                A     == SumSeq(props)
            IN \E dtReact \in getCriticalTimeStepNoFloor(A) :
                  IF Fl(dtSSA + dtReact) < curDt
                  THEN \E r \in stepSSA(m_reactions, props) :
                          /\ a_state' = advanceState(m_reactions[r], a_state, 1)
                          /\ Explored(a_state')
                          /\ trial' = [trial EXCEPT !.fired = Append(@, m_reactions[r])]
                          /\ dtSSA' = Fl(dtSSA + dtReact)
                          /\ numSSA' = numSSA + 1
                          /\ UNCHANGED <<pc, curTime>>
                  ELSE /\ dtSSA' = curDt
                       /\ UNCHANGED <<pc, curTime, a_state, numSSA, trial>>
       ELSE /\ curTime' = Fl(curTime + dtSSA)
            /\ pc' = "hyb_while"
            /\ UNCHANGED <<a_state, ssa, trial>>
    /\ UNCHANGED <<call, params, curDt, state, hybrid, leapReactions, newton>>
    /\ UNCHANGED operands

\* validStep = state.isValidState(); if (validStep) {a_state = state;
\* curTime += curDt;} else {dtNonCrit *= 0.5;}   (both leap branches)
HybridCheck ==
    /\ pc = "check" /\ driver = "hybrid"
    /\ IF isValidState(state)
       THEN /\ a_state' = state /\ curTime' = Fl(curTime + curDt) /\ UNCHANGED dtNonCrit
            /\ pc' = "hyb_while"
       ELSE /\ dtNonCrit' = dtNonCrit \div 2 /\ UNCHANGED <<a_state, curTime>>
            /\ pc' = "hyb_trial"
    /\ state' = NoState
    /\ UNCHANGED <<call, params, curDt, criticalReactions, nonCriticalReactions,
                   propensitiesCrit, dtCrit, ssa, leapReactions, newton, trial>>
    /\ UNCHANGED operands

Next ==
    \/ define \/ setSolverParameters
    \/ advanceTau \/ TauWhile \/ TauTrial \/ TauCheck
    \/ StepExplicitEuler \/ StepMidpoint \/ StepPRC \/ StepDefault
    \/ StepImplicitEulerBegin \/ NewtonIterate \/ StepImplicitEulerEnd
    \/ advanceHybrid \/ HybridWhile \/ HybridTrial \/ HybridCritical \/ HybridSSA
    \/ HybridCheck

Spec == Init /\ [][Next]_vars

\* -------------------------------------------- the time arithmetic, rounded
\* The requested increments of SpecFloat: all Precision bits set, so that
\* the remaining time is not representable after a short first step.
\* advanceHybrid is followed for the smaller one only.
MinIncrement == (2 ^ Precision - 1) * 2

MaxIncrement == (2 ^ Precision - 1) * 8

FloatIncrements(d) == IF d = "tau" THEN {MinIncrement, MaxIncrement} ELSE {MinIncrement}

\* The time steps that can be drawn in advanceHybrid: the representable
\* times up to twice the increment.
FloatTimes == {x \in 0..(2 * MinIncrement) : Fl(x) = x}

FloatFrame == <<m_reactions, params, a_state, a_leapPropagator, state,
                criticalReactions, nonCriticalReactions, propensitiesCrit,
                leapReactions, newton, trial, state0>>

\* advanceTau or advanceHybrid called with a non-empty list: Real curTime = 0.0.
FloatCall ==
    /\ pc = "idle"
    /\ \E d \in {"tau", "hybrid"} : \E dt \in FloatIncrements(d) :
          /\ driver' = d /\ a_dt' = dt
          /\ pc' = IF d = "tau" THEN "tau_while" ELSE "hyb_while"
    /\ curTime' = 0 /\ curDt' = a_dt'
    /\ UNCHANGED <<FloatFrame, dtCrit, dtNonCrit, ssa>>
    /\ UNCHANGED operands

\* advanceTau: while (curTime < a_dt) { curDt = a_dt - curTime; ...
FloatTauWhile ==
    /\ pc = "tau_while"
    /\ IF curTime < a_dt
       THEN /\ curDt' = Fl(a_dt - curTime) /\ pc' = "check"
       ELSE /\ UNCHANGED curDt /\ pc' = "done"
    /\ UNCHANGED <<FloatFrame, driver, a_dt, curTime, dtCrit, dtNonCrit, ssa>>
    /\ UNCHANGED operands

\* advanceTau: if (valid) {a_state = state; curTime += curDt;} else
\* {curDt *= 0.5;}, valid drawn.
FloatTauCheck ==
    /\ pc = "check" /\ driver = "tau"
    /\ \/ /\ curTime' = Fl(curTime + curDt) /\ UNCHANGED curDt /\ pc' = "tau_while"
       \/ /\ curDt >= 2 /\ curDt % 2 = 0
          /\ curDt' = curDt \div 2 /\ UNCHANGED curTime /\ pc' = "check"
    /\ UNCHANGED <<FloatFrame, driver, a_dt, dtCrit, dtNonCrit, ssa>>
    /\ UNCHANGED operands

\* advanceHybrid: while (curTime < a_dt) { ... dtCrit = ...; dtNonCrit = ...
FloatHybridWhile ==
    /\ pc = "hyb_while"
    /\ IF curTime < a_dt
       THEN /\ dtCrit' \in FloatTimes /\ dtNonCrit' \in FloatTimes
            /\ pc' = "hyb_trial"
       ELSE /\ UNCHANGED <<dtCrit, dtNonCrit>> /\ pc' = "done"
    /\ UNCHANGED <<FloatFrame, driver, a_dt, curTime, curDt, ssa>>
    /\ UNCHANGED operands

\* advanceHybrid: curDt = min(...), then the SSA branch or a leap (which
\* one depends on the reactions, left out here).
FloatHybridTrial ==
    /\ pc = "hyb_trial"
    /\ curDt' = HybridTimeStep(Fl(a_dt - curTime), dtCrit, dtNonCrit)
    /\ \/ /\ dtSSA' = 0 /\ pc' = "hyb_ssa"
       \/ /\ UNCHANGED dtSSA /\ pc' = "check"
    /\ UNCHANGED <<FloatFrame, driver, a_dt, curTime, dtCrit, dtNonCrit, numSSA>>
    /\ UNCHANGED operands

\* advanceHybrid, SSA branch: a pass of the loop (dtReact drawn), or
\* validStep = true; curTime += dtSSA.
FloatHybridSSA ==
    /\ pc = "hyb_ssa"
    /\ \/ /\ dtSSA < curDt
          /\ \E dtReact \in FloatTimes :
                dtSSA' = IF Fl(dtSSA + dtReact) < curDt THEN Fl(dtSSA + dtReact)
                         ELSE curDt
          /\ UNCHANGED <<pc, curTime>>
       \/ /\ curTime' = Fl(curTime + dtSSA) /\ pc' = "hyb_while"
          /\ UNCHANGED dtSSA
    /\ UNCHANGED <<FloatFrame, driver, a_dt, curDt, dtCrit, dtNonCrit, numSSA>>
    /\ UNCHANGED operands

\* advanceHybrid: if (validStep) {a_state = state; curTime += curDt;} else
\* {dtNonCrit *= 0.5;}, validStep drawn.
FloatHybridCheck ==
    /\ pc = "check" /\ driver = "hybrid"
    /\ \/ /\ curTime' = Fl(curTime + curDt) /\ UNCHANGED dtNonCrit /\ pc' = "hyb_while"
       \/ /\ dtNonCrit >= 2 /\ dtNonCrit % 2 = 0
          /\ dtNonCrit' = dtNonCrit \div 2 /\ UNCHANGED curTime /\ pc' = "hyb_trial"
    /\ UNCHANGED <<FloatFrame, driver, a_dt, curDt, dtCrit, ssa>>
    /\ UNCHANGED operands

NextFloat ==
    \/ FloatCall \/ FloatTauWhile \/ FloatTauCheck
    \/ FloatHybridWhile \/ FloatHybridTrial \/ FloatHybridSSA \/ FloatHybridCheck

SpecFloat == Init /\ [][NextFloat]_vars

\* ------------------------------------- the operations of states and reactions
\* The operations of KMCDualState, KMCSingleState and the two reaction classes,
\* and the two list operations of the solver (partitionReactions, stepSSA),
\* applied in any order to one state object of either variant.  op records
\* the last operation: its arguments, the object before it and its result.

\* Reactions of the dual-state variant beyond those of the solver runs.
R_trimer == KMCDualStateReaction(<<1, 1, 1>>, <<2>>, <<>>, 1)       \* 3A -> B
R_mixed  == KMCDualStateReaction(<<1, 2, 1>>, <<2, 2>>, <<1, 1>>, 2)
                                                    \* A + B + A -> 2B + 2 photons
R_branch == KMCDualStateReaction(<<1>>, <<1, 1>>, <<>>, 1)          \* A -> 2A

DualReactions == {R_decay, R_dimer, R_emit, R_trimer, R_mixed, R_branch}

\* The same reactions of the single-state variant, and a source 0 -> A.
SingleReactions ==
    {KMCSingleStateReaction(<<1>>, <<>>, 1),
     KMCSingleStateReaction(<<1, 1>>, <<2>>, 1),
     KMCSingleStateReaction(<<2>>, <<1>>, 1),
     KMCSingleStateReaction(<<1, 1, 1>>, <<2>>, 1),
     KMCSingleStateReaction(<<1, 2, 1>>, <<2, 2>>, 2),
     KMCSingleStateReaction(<<>>, <<1>>, 1)}

\* Reaction lists, one of them with a reaction that occurs twice.
OperandLists ==
    {<<>>, <<R_decay, R_emit>>, <<R_dimer, R_decay, R_dimer>>,
     <<R_emit, R_mixed, R_branch>>}

NcritValues == {0, 1, 2, TMax}

Firings == (-MaxFirings)..MaxFirings

\* The populations the state objects start with.
StartPopulations == {-1, 0, MaxOperand}

InBox(populations) ==
    \A i \in 1..Len(populations) :
        -MaxNegative <= populations[i] /\ populations[i] <= MaxOperand

\* The vectors linearIn is called with.
LinearVectors(len) == [1..len -> {-1, MaxOperand}]

\* Vectors whose length differs from that of a state with len entries.
MismatchVectors(len) ==
    {[i \in 1..(len - 1) |-> MaxOperand], [i \in 1..(len + 1) |-> -1]}

SolverFrame == <<driver, m_reactions, params, a_dt, a_leapPropagator, curTime, curDt,
                 state, hybrid, ssa, leapReactions, newton, trial, state0>>

InitOps ==
    /\ pc = "operand"
    /\ driver = "none"
    /\ m_reactions = <<>>
    /\ m_Ncrit = 0 /\ m_numSSA = 0 /\ m_maxIter = MaxNewton /\ m_eps = EpsMax /\ m_SSAlim = 0
    /\ a_dt = 0
    /\ a_leapPropagator = "ExplicitEuler"
    /\ curTime = 0 /\ curDt = 0
    /\ state = NoState
    /\ criticalReactions = <<>> /\ nonCriticalReactions = <<>> /\ propensitiesCrit = <<>>
    /\ dtCrit = 0 /\ dtNonCrit = 0
    /\ dtSSA = 0 /\ numSSA = 0
    /\ leapReactions = <<>>
    /\ newton = NoNewton
    /\ trial = NoTrial
    /\ state0 = NoState
    /\ \E variant \in {"dual", "single"} :
          /\ op = [NoOp EXCEPT !.variant = variant]
          /\ IF variant = "dual"
             THEN /\ \E r \in [1..NumReactive -> StartPopulations],
                        nr \in [1..NumNonReactive -> StartPopulations] :
                        a_state = KMCDualState(r, nr)
                  /\ m_state = NoSingleState
             ELSE /\ a_state = NoState
                  /\ m_state \in [1..NumSpecies -> StartPopulations]

\* The record of an operation on an object that was `before`, with result out.
Applied(name, before, out) ==
    [NoOp EXCEPT !.name = name, !.variant = op.variant, !.before = before,
                 !.origin = before, !.out = out]

\* ---- KMCDualState
DualIsValidState ==
    /\ pc = "operand" /\ op.variant = "dual"
    /\ op' = Applied("isValidState", a_state, isValidState(a_state))
    /\ UNCHANGED <<pc, a_state, m_state, SolverFrame>>

DualLinearOut ==
    /\ pc = "operand" /\ op.variant = "dual"
    /\ op' = Applied("linearOut", a_state, linearOut(a_state))
    /\ UNCHANGED <<pc, a_state, m_state, SolverFrame>>

\* linearIn with a vector of the state's length, or one entry shorter or
\* longer.  The loops run over the state's sizes: of a longer vector the
\* first entries are taken; of a shorter one the entries past its end are
\* read out of bounds (any value).
DualLinearIn ==
    /\ pc = "operand" /\ op.variant = "dual"
    /\ LET size == NumReactive + NumNonReactive
       IN \E v \in LinearVectors(size) \cup MismatchVectors(size) :
          \E beyond \in LinearVectors(Max(0, size - Len(v))) :
             /\ a_state' = linearIn(a_state, v \o beyond)
             /\ op' = [Applied("linearIn", a_state, 0) EXCEPT !.v = v]
    /\ UNCHANGED <<pc, m_state, SolverFrame>>

\* ---- KMCSingleState
SingleIsValidState ==
    /\ pc = "operand" /\ op.variant = "single"
    /\ op' = Applied("isValidState", m_state, isValidStateSingle(m_state))
    /\ UNCHANGED <<pc, a_state, m_state, SolverFrame>>

SingleLinearOut ==
    /\ pc = "operand" /\ op.variant = "single"
    /\ op' = Applied("linearOut", m_state, linearOutSingle(m_state))
    /\ UNCHANGED <<pc, a_state, m_state, SolverFrame>>

\* linearIn with a vector of the state's length, or one entry shorter or
\* longer (an object whose size has changed is not operated on further).
SingleLinearIn ==
    /\ pc = "operand" /\ op.variant = "single"
    /\ \E v \in LinearVectors(Len(m_state)) \cup MismatchVectors(Len(m_state)) :
          /\ m_state' = linearInSingle(m_state, v)
          /\ op' = [Applied("linearIn", m_state, 0) EXCEPT !.v = v]
          /\ pc' = IF Len(m_state') = Len(m_state) THEN "operand" ELSE "resized"
    /\ UNCHANGED <<a_state, SolverFrame>>

\* ---- KMCDualStateReaction
DualPropensity ==
    /\ pc = "operand" /\ op.variant = "dual"
    /\ \E rx \in DualReactions :
          op' = [Applied("propensity", a_state, propensity(rx, a_state))
                    EXCEPT !.reactions = <<rx>>]
    /\ UNCHANGED <<pc, a_state, m_state, SolverFrame>>

DualCritical ==
    /\ pc = "operand" /\ op.variant = "dual"
    /\ \E rx \in DualReactions :
          op' = [Applied("computeCriticalNumberOfReactions", a_state,
                         computeCriticalNumberOfReactions(rx, a_state))
                    EXCEPT !.reactions = <<rx>>]
    /\ UNCHANGED <<pc, a_state, m_state, SolverFrame>>

\* KMCDualStateReaction::advanceState with its two CH_assert(isValidState()):
\* the call completes (the assertions hold, or are compiled out), or aborts
\* at the first assertion with the state untouched, or at the second with the
\* state already advanced.
advanceStateOutcomes(rx, s, numReactions) ==
    LET advanced == advanceState(rx, s, numReactions)
    IN {[state |-> advanced, completed |-> TRUE]} \cup
       (IF ~isValidState(s) THEN {[state |-> s, completed |-> FALSE]}
        ELSE IF ~isValidState(advanced) THEN {[state |-> advanced, completed |-> FALSE]}
        ELSE {})

\* The call that follows a completed advanceState(n), n >= 0, of the same
\* reaction with -n is recorded as its undo, with the object before the pair.
Undoes(rx, n) ==
    /\ op.name = "advanceState" /\ op.completed /\ ~op.undo
    /\ op.reactions = <<rx>> /\ op.n >= 0 /\ n = -op.n

DualAdvanceState ==
    /\ pc = "operand" /\ op.variant = "dual"
    /\ \E rx \in DualReactions, n \in Firings :
          \E outcome \in advanceStateOutcomes(rx, a_state, n) :
             /\ InBox(linearOut(outcome.state))
             /\ a_state' = outcome.state
             /\ pc' = IF outcome.completed THEN "operand" ELSE "aborted"
             /\ op' = [Applied("advanceState", a_state, 0)
                         EXCEPT !.reactions = <<rx>>, !.n = n,
                                !.completed = outcome.completed,
                                !.undo = Undoes(rx, n),
                                !.origin = IF Undoes(rx, n) THEN op.before ELSE a_state]
    /\ UNCHANGED <<m_state, SolverFrame>>

\* ---- KMCSingleStateReaction
SinglePropensity ==
    /\ pc = "operand" /\ op.variant = "single"
    /\ \E rx \in SingleReactions :
          op' = [Applied("propensity", m_state, propensitySingle(rx, m_state))
                    EXCEPT !.reactions = <<rx>>]
    /\ UNCHANGED <<pc, a_state, m_state, SolverFrame>>

SingleCritical ==
    /\ pc = "operand" /\ op.variant = "single"
    /\ \E rx \in SingleReactions :
          op' = [Applied("computeCriticalNumberOfReactions", m_state,
                         computeCriticalNumberOfReactionsSingle(rx, m_state))
                    EXCEPT !.reactions = <<rx>>]
    /\ UNCHANGED <<pc, a_state, m_state, SolverFrame>>

SingleAdvanceState ==
    /\ pc = "operand" /\ op.variant = "single"
    /\ \E rx \in SingleReactions, n \in Firings :
          /\ m_state' = advanceStateSingle(rx, m_state, n)
          /\ InBox(m_state')
          /\ op' = [Applied("advanceState", m_state, 0)
                      EXCEPT !.reactions = <<rx>>, !.n = n,
                             !.undo = Undoes(rx, n),
                             !.origin = IF Undoes(rx, n) THEN op.before ELSE m_state]
    /\ UNCHANGED <<pc, a_state, SolverFrame>>

\* ---- KMCSolver
\* partitionReactions(state, reactions) of a solver with the given Ncrit.
OpPartitionReactions ==
    /\ pc = "operand" /\ op.variant = "dual"
    /\ \E reactions \in OperandLists, Ncrit \in NcritValues :
          op' = [Applied("partitionReactions", a_state,
                         partitionReactions(a_state, reactions, Ncrit))
                    EXCEPT !.reactions = reactions, !.Ncrit = Ncrit]
    /\ UNCHANGED <<pc, a_state, m_state, SolverFrame>>

\* stepSSA(state, reactions): the propensities of the state, the draw u (as
\* the threshold u * A), the search for r and a_reactions[r]->advanceState(
\* a_state, 1).  out is r, counted from 1 (0 for the empty list).
OpStepSSA ==
    /\ pc = "operand" /\ op.variant = "dual"
    /\ \E reactions \in OperandLists :
          IF Len(reactions) > 0
          THEN LET props == propensities(a_state, reactions)
               IN \E uA \in getUniformReal01Times(SumSeq(props)) :
                  \E r \in SSAIndices(props, uA) :
                  \E outcome \in advanceStateOutcomes(reactions[r], a_state, 1) :
                     /\ InBox(linearOut(outcome.state))
                     /\ a_state' = outcome.state
                     /\ pc' = IF outcome.completed THEN "operand" ELSE "aborted"
                     /\ op' = [Applied("stepSSA", a_state, r)
                                 EXCEPT !.reactions = reactions, !.u = uA,
                                        !.completed = outcome.completed]
          ELSE /\ op' = [Applied("stepSSA", a_state, 0) EXCEPT !.reactions = reactions]
               /\ UNCHANGED <<pc, a_state>>
    /\ UNCHANGED <<m_state, SolverFrame>>

NextOps ==
    \/ DualIsValidState \/ DualLinearOut \/ DualLinearIn
    \/ SingleIsValidState \/ SingleLinearOut \/ SingleLinearIn
    \/ DualPropensity \/ DualCritical \/ DualAdvanceState
    \/ SinglePropensity \/ SingleCritical \/ SingleAdvanceState
    \/ OpPartitionReactions \/ OpStepSSA

SpecOps == InitOps /\ [][NextOps]_vars

\* ------------------------------------------------ the solver's primitives
\* The stepping functions of KMCSolver called one at a time, as a user of
\* the class or one of its drivers calls them: on a state, with a reaction
\* list that is the solver's own list or a sub-list of it (what
\* partitionReactions hands to the propagator), and a positive step.  Each
\* behaviour is one call: pc is "step" before it and "stepped" at its return.
R_pair == KMCDualStateReaction(<<2>>, <<1, 1>>, <<>>, 1)    \* B -> A + A

StepLists == {<<R_decay, R_emit>>, <<R_decay, R_dimer>>, <<R_pair>>}

\* The list itself and the lists with one reaction taken out.
SubLists(list) ==
    {list} \cup {SubSeq(list, 1, i - 1) \o SubSeq(list, i + 1, Len(list)) :
                    i \in 1..Len(list)}

StepStates ==
    {KMCDualState(r, [i \in 1..NumNonReactive |-> 0]) :
        r \in [1..NumReactive -> {0, 1, MaxOperand}]}

\* The steps a_dt, in ticks: a half and a whole time unit.
StepIncrements == {TimeDen \div 2, TimeDen}

\* The values of m_eps: 0 (f = 1 for every species) and the default.
StepEps == {0, EpsMax}

\* The iterates Xit the residual is evaluated at.
StepIterates == {linearOut(x) : x \in StepStates}

StepsFrame == <<driver, m_reactions, params, a_leapPropagator, curTime, state, hybrid,
                ssa, newton, trial, state0, m_state>>

InitSteps ==
    /\ pc = "step"
    /\ driver = "none"
    /\ m_reactions \in StepLists
    /\ m_Ncrit = 0 /\ m_numSSA = 0 /\ m_maxIter = MaxNewton /\ m_SSAlim = 0
    /\ m_eps \in StepEps
    /\ a_state \in StepStates
    /\ a_dt = 0
    /\ a_leapPropagator = "ExplicitEuler"
    /\ curTime = 0 /\ curDt = 0
    /\ state = NoState
    /\ criticalReactions = <<>> /\ nonCriticalReactions = <<>> /\ propensitiesCrit = <<>>
    /\ dtCrit = 0 /\ dtNonCrit = 0
    /\ dtSSA = 0 /\ numSSA = 0
    /\ leapReactions = <<>>
    /\ newton = NoNewton
    /\ trial = NoTrial
    /\ state0 = NoState
    /\ m_state = NoSingleState
    /\ op = NoOp

\* A call of a leap primitive: the list and the step (n), the means handed
\* to the Poisson sampler (out) and the firings drawn (v).
Leapt(name, reactions, dt, means, n) ==
    [Applied(name, a_state, means) EXCEPT !.reactions = reactions, !.n = dt, !.v = n]

OpStepExplicitEuler ==
    /\ pc = "step"
    /\ \E reactions \in SubLists(m_reactions), dt \in StepIncrements :
          LET means == ExplicitEulerMeans(a_state, reactions, dt)
          IN \E n \in PoissonVectors(means) :
                /\ a_state' = AdvanceAll(reactions, a_state, n, 1)
                /\ op' = Leapt("stepExplicitEuler", reactions, dt, means, n)
    /\ pc' = "stepped"
    /\ UNCHANGED <<a_dt, curDt, leapReactions, StepsFrame>>

OpStepMidpoint ==
    /\ pc = "step"
    /\ \E reactions \in SubLists(m_reactions), dt \in StepIncrements :
          LET means == MidpointMeans(a_state, reactions, dt)
          IN \E n \in PoissonVectors(means) :
                /\ a_state' = MidpointApply(a_state, reactions, dt, n)
                /\ op' = Leapt("stepMidpoint", reactions, dt, means, n)
    /\ pc' = "stepped"
    /\ UNCHANGED <<a_dt, curDt, leapReactions, StepsFrame>>

OpStepPRC ==
    /\ pc = "step"
    /\ \E reactions \in SubLists(m_reactions), dt \in StepIncrements :
          LET means == PRCMeans(a_state, reactions, dt)
          IN \E n \in PoissonVectors(means) :
                /\ a_state' = AdvanceAll(reactions, a_state, n, 1)
                /\ op' = Leapt("stepPRC", reactions, dt, means, n)
    /\ pc' = "stepped"
    /\ UNCHANGED <<a_dt, curDt, leapReactions, StepsFrame>>

\* getNonCriticalTimeStep(state, nonCriticalReactions, propensities).
OpGetNonCriticalTimeStep ==
    /\ pc = "step"
    /\ \E reactions \in SubLists(m_reactions) :
          op' = [Applied("getNonCriticalTimeStep", a_state,
                         getNonCriticalTimeStep(a_state, reactions,
                             propensities(a_state, reactions), m_eps))
                   EXCEPT !.reactions = reactions]
    /\ pc' = "stepped"
    /\ UNCHANGED <<a_state, a_dt, curDt, leapReactions, StepsFrame>>

\* getNu: for each reaction the state is set to zero (linearOut, zeros,
\* linearIn), advanced by one firing, and nu = postState - preState.
getNu(s, reactions) ==
    LET preState == [i \in 1..Len(linearOut(s)) |-> 0]
    IN [j \in 1..Len(reactions) |->
          LET postState == linearOut(advanceState(reactions[j], linearIn(s, preState), 1))
          IN [i \in 1..Len(preState) |-> postState[i] - preState[i]]]

\* The lambda computeF of stepImplicitEuler (F times TimeDen): stateXit is
\* a_state with the rounded iterate; ajXit = this->propensities(stateXit),
\* the one-argument overload, which evaluates the solver's own list
\* m_reactions; then F[i] = Xit[i] - C[i], and F[i] -= a_dt * nuj[i] * ajXit[j]
\* for j < M = a_reactions.size().  An index j past the end of ajXit reads
\* out of bounds (the value beyond).
computeF(Xit, C, s, reactions, ownReactions, dt, beyond) ==
    LET stateXit == linearIn(s, Xit)
        ajXit    == propensities(stateXit, ownReactions)
        nu       == getNu(s, reactions)
    IN [i \in 1..Len(Xit) |->
          TimeDen * (Xit[i] - C[i])
          - SumSeq([j \in 1..Len(reactions) |->
                      dt * nu[j][i] * (IF j <= Len(ajXit) THEN ajXit[j] ELSE beyond)])]

\* stepImplicitEuler(state, reactions, dt) up to its first residual: the
\* residual at an iterate Xit, with the constant term C of the input state.
OpComputeF ==
    /\ pc = "step"
    /\ \E reactions \in SubLists(m_reactions), dt \in StepIncrements,
          Xit \in StepIterates, beyond \in {0, 1} :
          op' = [Applied("computeF", a_state,
                         computeF(Xit, linearOut(a_state), a_state, reactions,
                                  m_reactions, dt, beyond))
                   EXCEPT !.reactions = reactions, !.n = dt, !.v = Xit]
    /\ pc' = "stepped"
    /\ UNCHANGED <<a_state, a_dt, curDt, leapReactions, StepsFrame>>

\* advanceSSA(state, reactions, dt): if (numReactions > 0) {Real curDt = 0.0; ...
advanceSSA ==
    /\ pc = "step"
    /\ \E reactions \in SubLists(m_reactions), dt \in StepIncrements :
          /\ a_dt' = dt /\ leapReactions' = reactions
          /\ op' = [Applied("advanceSSA", a_state, 0) EXCEPT !.reactions = reactions]
          /\ pc' = IF Len(reactions) > 0 THEN "ssa_while" ELSE "stepped"
    /\ curDt' = 0
    /\ UNCHANGED <<a_state, StepsFrame>>

\* One pass of while (curDt <= a_dt): the propensities, nextDt, the firing
\* if (curDt + nextDt <= a_dt), curDt += nextDt; or the return.  The pass is
\* recorded with curDt (n), nextDt (u) and the reaction fired (out, 0 for
\* none).  A time is followed down to -RealMax.
SSAWhile ==
    /\ pc = "ssa_while"
    /\ IF curDt <= a_dt
       THEN LET props == propensities(a_state, leapReactions)
            IN \E nextDt \in getCriticalTimeStep(SumSeq(props)) :
                  LET fireTime == IF nextDt = RealMax THEN RealMax ELSE curDt + nextDt
                  IN /\ fireTime >= -RealMax
                     /\ curDt' = fireTime
                     /\ IF fireTime <= a_dt
                        THEN \E r \in stepSSA(leapReactions, props) :
                                /\ a_state' = advanceState(leapReactions[r], a_state, 1)
                                /\ InBox(linearOut(a_state'))
                                /\ op' = [Applied("advanceSSA", a_state, r)
                                            EXCEPT !.reactions = leapReactions,
                                                   !.n = curDt, !.u = nextDt]
                        ELSE /\ op' = [Applied("advanceSSA", a_state, 0)
                                         EXCEPT !.reactions = leapReactions,
                                                !.n = curDt, !.u = nextDt]
                             /\ UNCHANGED a_state
                     /\ UNCHANGED pc
       ELSE /\ pc' = "stepped"
            /\ UNCHANGED <<a_state, curDt, op>>
    /\ UNCHANGED <<a_dt, leapReactions, StepsFrame>>

NextSteps ==
    \/ OpStepExplicitEuler \/ OpStepMidpoint \/ OpStepPRC
    \/ OpGetNonCriticalTimeStep \/ OpComputeF
    \/ advanceSSA \/ SSAWhile

SpecSteps == InitSteps /\ [][NextSteps]_vars

\* ------------------------------------------------------------------ claims
\* C1: from a call with no negative population, advanceTau and advanceHybrid
\* never leave the caller's state with a negative population, at return or
\* after any intermediate commit.
C1_NoNegativePopulation == driver # "none" => isValidState(a_state)

\* C2: in advanceTau an invalid trial leaves the caller's state and the
\* simulated time unchanged and halves the step; every trial starts from a
\* fresh copy of the committed state the outer pass began with; the caller's
\* state changes only by the assignment of a valid trial.
C2_RejectedTrialDiscarded ==
    [][driver = "tau" =>
         /\ (pc = "check" /\ ~isValidState(state)) =>
               /\ a_state' = a_state /\ curTime' = curTime
               /\ 2 * curDt' = curDt /\ pc' = "tau_trial"
         /\ pc = "tau_trial" =>
               /\ state' = a_state /\ a_state' = a_state /\ a_state = trial.base
         /\ a_state' # a_state =>
               /\ pc = "check" /\ isValidState(state) /\ a_state' = state]_vars

\* A retry of advanceTau: the step was halved and the trial is again a copy
\* of the committed state.
C2_Witness ==
    /\ driver = "tau" /\ pc = "leap"
    /\ 2 * curDt = a_dt - curTime
    /\ state = a_state /\ a_state = trial.base

InPass == pc \in {"leap", "newton", "newton_out", "check", "hyb_critical", "hyb_ssa"}

\* C3 as stated: curTime never exceeds a_dt; the substep is at most the
\* remaining time (in advanceHybrid it is min(remaining, dtCrit, dtNonCrit));
\* the call returns from its loop only with curTime = a_dt.  (advanceTau with
\* an empty reaction list returns without entering the loop: there is no
\* curTime.)
C3_TimeWithinIncrement ==
    /\ driver # "none" => curTime <= a_dt
    /\ (InPass \/ pc = "tau_trial") => curDt <= a_dt - curTime
    /\ (InPass /\ driver = "hybrid") =>
           curDt = Min(a_dt - curTime, Min(dtCrit, dtNonCrit))
    /\ pc = "hyb_ssa" => curTime + dtSSA <= a_dt
    /\ (pc = "done" /\ (driver = "hybrid" \/ Len(m_reactions) > 0)) => curTime = a_dt

\* C3, amended: curTime never exceeds a_dt by more than one unit in the last
\* place of a_dt; the substep is at most the remaining time as computed,
\* fl(a_dt - curTime) (in advanceHybrid it is min(fl(remaining), dtCrit,
\* dtNonCrit)); the loop is left only with curTime >= a_dt.
C3_TimeWithinRounding ==
    /\ driver # "none" => curTime <= a_dt + Ulp(a_dt)
    /\ (InPass \/ pc = "tau_trial") => curDt <= Fl(a_dt - curTime)
    /\ (InPass /\ driver = "hybrid") =>
           curDt = Min(Fl(a_dt - curTime), Min(dtCrit, dtNonCrit))
    /\ pc = "hyb_ssa" => (dtSSA <= curDt /\ Fl(curTime + dtSSA) <= a_dt + Ulp(a_dt))
    /\ (pc = "done" /\ (driver = "hybrid" \/ Len(m_reactions) > 0)) =>
           (curTime >= a_dt /\ curTime <= a_dt + Ulp(a_dt))

\* A call has returned with curTime one unit in the last place above a_dt.
C3_WitnessRounded ==
    /\ pc = "done" /\ driver = "hybrid" /\ curTime = a_dt + Ulp(a_dt)

\* C4: every pass of the step-rejection loop of advanceHybrid that ends with
\* validStep = true advances curTime by a strictly positive amount.
C4_ValidStepAdvancesTime ==
    [][(driver = "hybrid" /\ pc \in {"check", "hyb_ssa"} /\ pc' = "hyb_while")
          => curTime' > curTime]_vars

Sentinel == [i \in 1..(NumReactive + NumNonReactive) |-> -1]

\* C5: stepImplicitEuler returns the rounded Newton iterate only if the
\* criterion norm / initNorm < exitTol was met; when maxIter iterations elapse
\* without meeting it, or the linear solve fails, the output is invalid (the
\* sentinel), never an unconverged iterate that passes isValidState.
C5_OnlyConvergedIterateReturned ==
    (pc = "check" /\ a_leapPropagator = "ImplicitEuler") =>
        /\ newton.met => linearOut(state) = newton.X
        /\ newton.INFO # 0 => linearOut(state) = Sentinel
        /\ ~newton.met => ~isValidState(state)

C7_UnknownSelectorAborts ==
    (driver # "none" /\ a_leapPropagator \notin KMCLeapPropagator) =>
        (pc # "done" /\ curTime = 0 /\ a_state = state0)

InPropagator == pc \in {"leap", "newton", "newton_out"}

\* C8: in advanceHybrid the propagator is applied to the non-critical list
\* only: no reaction of the list it gets is critical for the state the outer
\* iteration classified, every critical reaction of m_reactions is outside
\* it, and in a leap the only firings of critical reactions are those of
\* stepSSA (at most one, of the critical list).
C8_CriticalNeverLeapt ==
    (driver = "hybrid" /\ (InPropagator \/ pc = "check")) =>
        /\ leapReactions = nonCriticalReactions
        /\ \A i \in 1..Len(leapReactions) :
               ~IsCritical(leapReactions[i], a_state, m_Ncrit)
        /\ \A i \in 1..Len(m_reactions) :
               IsCritical(m_reactions[i], a_state, m_Ncrit) =>
                   /\ m_reactions[i] \notin Range(leapReactions)
                   /\ m_reactions[i] \in Range(criticalReactions)
        /\ Len(trial.fired) <= 1
        /\ \A i \in 1..Len(trial.fired) : trial.fired[i] \in Range(criticalReactions)
        /\ (a_leapPropagator = "ExplicitEuler" /\ pc = "check"
              /\ trial.branch = "leap") =>
               state \in stepExplicitEuler(a_state, nonCriticalReactions, curDt)

\* A non-critical-only leap of advanceHybrid while a critical reaction exists.
C8_Witness ==
    /\ driver = "hybrid" /\ pc = "check" /\ trial.branch = "leap"
    /\ Len(criticalReactions) > 0 /\ Len(leapReactions) > 0
    /\ state # a_state

Governs ==
    /\ Len(criticalReactions) > 0
    /\ dtCrit <= dtNonCrit
    /\ dtCrit <= Fl(a_dt - curTime)

\* C9: in advanceHybrid the critical branch is taken exactly when the
\* critical time step governs; its trial is one stepSSA firing of a critical
\* reaction followed by a leap of the non-critical list over the same curDt =
\* dtCrit, both on the one trial copy of the committed state; a valid trial
\* is committed whole and advances the time by curDt; an invalid one leaves
\* the caller's state and the time unchanged and halves dtNonCrit.
C9_CriticalBranchIsOneUnit ==
    [][driver = "hybrid" =>
         /\ pc = "hyb_trial" => (trial'.branch = "critical" <=> Governs)
         /\ (pc = "hyb_trial" /\ Governs) =>
               (pc' = "hyb_critical" /\ state' = a_state /\ curDt' = dtCrit)
         /\ pc = "hyb_critical" =>
               /\ pc' = "leap" /\ a_state' = a_state /\ curDt' = curDt
               /\ Len(trial'.fired) = 1
               /\ trial'.fired[1] \in Range(criticalReactions)
               /\ state' = advanceState(trial'.fired[1], a_state, 1)
               /\ leapReactions = nonCriticalReactions
         /\ (trial.branch = "critical" /\ InPropagator) =>
               /\ a_state' = a_state /\ curDt' = curDt /\ trial' = trial
               /\ leapReactions' = leapReactions
         /\ (trial.branch = "critical" /\ pc = "check") =>
               /\ a_state = trial.base /\ curDt = dtCrit /\ Len(trial.fired) = 1
               /\ a_leapPropagator = "ExplicitEuler" =>
                      state \in stepExplicitEuler(advanceState(trial.fired[1], a_state, 1),
                                                  nonCriticalReactions, curDt)
               /\ IF isValidState(state)
                  THEN /\ a_state' = state /\ curTime' = Fl(curTime + curDt)
                       /\ pc' = "hyb_while"
                  ELSE /\ a_state' = a_state /\ curTime' = curTime
                       /\ 2 * dtNonCrit' = dtNonCrit /\ pc' = "hyb_trial"]_vars

\* A joint trial of the critical branch that came out invalid: the critical
\* firing and the leap are about to be discarded together.
C9_Witness ==
    /\ driver = "hybrid" /\ pc = "check" /\ trial.branch = "critical"
    /\ Len(trial.fired) = 1 /\ Len(leapReactions) > 0
    /\ ~isValidState(state) /\ isValidState(a_state)

\* C10: in the SSA branch of advanceHybrid (entered in a non-critical-only
\* substep with totalPropensity * curDt < SSAlim) at most m_numSSA reactions
\* are fired in the substep, each one a reaction of m_reactions, and dtSSA
\* never exceeds curDt.
C10_SSABranchBounded ==
    (driver = "hybrid" /\ trial.branch = "ssa" /\ pc \in {"hyb_ssa", "hyb_while", "done"}) =>
        /\ numSSA <= m_numSSA
        /\ Len(trial.fired) = numSSA
        /\ \A i \in 1..Len(trial.fired) : trial.fired[i] \in Range(m_reactions)
        /\ dtSSA <= curDt
        /\ curDt = trial.dt
        /\ ~Governs \/ pc # "hyb_ssa"

\* The SSA branch has fired m_numSSA reactions and the substep is not used up.
C10_Witness ==
    /\ driver = "hybrid" /\ pc = "hyb_ssa" /\ trial.branch = "ssa"
    /\ m_numSSA > 0 /\ numSSA = m_numSSA /\ dtSSA < curDt

\* The parameters define leaves behind: Ncrit = 0, numSSA = 0, SSAlim = 0.
Defaults == m_Ncrit = 0 /\ m_numSSA = 0 /\ m_SSAlim = 0

\* C11: with the default parameters every reaction of advanceHybrid is
\* non-critical and no SSA reaction is ever fired: the critical list is empty,
\* the non-critical list is the whole list, neither the critical-unit branch
\* nor the SSA branch is entered, and the caller's state changes only by the
\* commit of a tau leap over the whole list.
C11_DefaultsAlwaysLeap ==
    [][(driver = "hybrid" /\ Defaults /\ pc # "done") =>
          /\ pc' \notin {"hyb_ssa", "hyb_critical"}
          /\ criticalReactions' = <<>>
          /\ trial'.fired = <<>>
          /\ trial'.branch \in {"none", "leap"}
          /\ pc = "hyb_while" /\ pc' # "done" =>
                /\ nonCriticalReactions' = m_reactions
                /\ \A i \in 1..Len(m_reactions) :
                       ~IsCritical(m_reactions[i], a_state, m_Ncrit)
          /\ pc = "hyb_trial" => leapReactions' = m_reactions
          /\ a_state' # a_state =>
                /\ pc = "check" /\ trial.branch = "leap"
                /\ leapReactions = m_reactions /\ a_state' = state]_vars

\* A leap of advanceHybrid under the default parameters that changed the trial,
\* while a reaction of the list cannot fire even once.
C11_Witness ==
    /\ driver = "hybrid" /\ Defaults /\ pc = "check" /\ trial.branch = "leap"
    /\ isValidState(state) /\ state # a_state
    /\ \E i \in 1..Len(m_reactions) :
          computeCriticalNumberOfReactions(m_reactions[i], a_state) = 0

\* C12: inside a solver call the caller's state is modified only by the
\* assignment of a trial state that was checked valid.
C12_OnlyValidatedTrialAssigned ==
    [][(driver # "none" /\ a_state' # a_state) =>
          /\ pc = "check"
          /\ isValidState(state)
          /\ a_state' = state]_vars

\* sub holds, in the order of list, the elements of list that are in members.
KeepsOrder(sub, list, members) == sub = SelectSeq(list, LAMBDA x : x \in members)

\* C13: partitionReactions returns two lists in which every reaction of the
\* input appears as often as in the input, in one list only and in input
\* order, nothing else appears, a reaction is in the critical list iff its
\* computeCriticalNumberOfReactions(state) < Ncrit, and the state is untouched.
C13_PartitionExactAndOrdered ==
    op.name = "partitionReactions" =>
        LET critical    == op.out[1]
            nonCritical == op.out[2]
        IN /\ Len(critical) + Len(nonCritical) = Len(op.reactions)
           /\ \A rx \in Range(op.reactions) :
                 /\ Count(critical, rx) + Count(nonCritical, rx) = Count(op.reactions, rx)
                 /\ Count(critical, rx) = 0 \/ Count(nonCritical, rx) = 0
                 /\ rx \in Range(critical) <=>
                        computeCriticalNumberOfReactions(rx, op.before) < op.Ncrit
           /\ KeepsOrder(critical, op.reactions, Range(critical))
           /\ KeepsOrder(nonCritical, op.reactions, Range(nonCritical))
           /\ a_state = op.before

\* A list with a reaction that occurs twice, split into two non-empty lists,
\* both occurrences critical, one reaction with exactly Ncrit firings left.
C13_Witness ==
    /\ op.name = "partitionReactions"
    /\ Len(op.out[1]) > 0 /\ Len(op.out[2]) > 0
    /\ \E rx \in Range(op.reactions) :
          Count(op.reactions, rx) = 2 /\ Count(op.out[1], rx) = 2
    /\ \E rx \in Range(op.reactions) :
          computeCriticalNumberOfReactions(rx, op.before) = op.Ncrit

\* C14: a completed stepSSA on a non-empty list has changed the state by one
\* firing of the reaction r, where r is the smallest index whose cumulative
\* propensity sum is at least u * totalPropensity for the drawn u; on an empty
\* list it leaves the state unchanged.
C14_SSAFiresFirstReached ==
    (op.name = "stepSSA" /\ op.completed) =>
        IF Len(op.reactions) = 0 THEN a_state = op.before
        ELSE LET props == propensities(op.before, op.reactions)
                 r     == op.out
             IN /\ PartialSum(props, r) >= op.u
                /\ \A j \in 1..(r - 1) : ~(PartialSum(props, j) >= op.u)
                /\ a_state = advanceState(op.reactions[r], op.before, 1)

\* N * (N - 1) * ... * (N - k + 1)
RECURSIVE FallingProduct(_, _)
FallingProduct(N, k) == IF k = 0 THEN 1 ELSE N * FallingProduct(N - 1, k - 1)

\* The product over the distinct reactant species s of
\* (1/k_s!) * N_s * (N_s - 1) * ... * (N_s - k_s + 1).
RECURSIVE CombinationsProduct(_, _, _)
CombinationsProduct(reactants, species, populations) ==
    IF species = {} THEN 1
    ELSE LET s == CHOOSE x \in species : TRUE
             k == Count(reactants, s)
         IN (FallingProduct(populations[s], k) \div FallingProduct(k, k)) *
            CombinationsProduct(reactants, species \ {s}, populations)

\* The reactants and the populations they count, of either variant.
OpReactants == IF op.variant = "dual" THEN op.reactions[1].lhsReactives
               ELSE op.reactions[1].reactants
OpPopulations == IF op.variant = "dual" THEN op.before.reactive ELSE op.before
Operand == IF op.variant = "dual" THEN a_state ELSE m_state

\* C15: for both reaction variants propensity(state) is the rate times the
\* product over the distinct reactant species of (1/k!) N (N-1) ... (N-k+1);
\* a reaction consuming one species twice has rate * N * (N - 1) / 2, and the
\* state is not modified.
C15_PropensityCountsCombinations ==
    op.name = "propensity" =>
        /\ op.out = op.reactions[1].rate *
                    CombinationsProduct(OpReactants, Range(OpReactants), OpPopulations)
        /\ \A s \in Range(OpReactants) :
              OpReactants = <<s, s>> =>
                  2 * op.out = op.reactions[1].rate * OpPopulations[s] * (OpPopulations[s] - 1)
        /\ Operand = op.before

\* The propensity of A + B + A -> ... with three A and two B: rate * 3 * 2.
C15_Witness ==
    /\ op.name = "propensity"
    /\ OpReactants = <<1, 2, 1>>
    /\ OpPopulations[1] = 3 /\ OpPopulations[2] = 2
    /\ op.out = op.reactions[1].rate * 6

\* C16: for every reaction of either variant, every state and every n >= 0,
\* advanceState(state, n) followed by advanceState(state, -n) runs to its end
\* and leaves every population of the state as it was before the pair.
C16_AdvanceStateRoundTrip ==
    op.name = "advanceState" =>
        /\ (op.n >= 0 /\ ~op.undo) => op.completed
        /\ op.undo => (op.completed /\ Operand = op.origin)

\* The populations of the operand are those of op.before plus n times
\* (occurrences among the products - occurrences among the reactants).
NetChangeApplied ==
    LET rx == op.reactions[1]
    IN IF op.variant = "dual"
       THEN /\ \A i \in 1..NumReactive :
                  a_state.reactive[i] = op.before.reactive[i] +
                      op.n * (Count(rx.rhsReactives, i) - Count(rx.lhsReactives, i))
            /\ \A i \in 1..NumNonReactive :
                  a_state.nonReactive[i] = op.before.nonReactive[i] +
                      op.n * Count(rx.rhsNonReactives, i)
       ELSE /\ Len(m_state) = Len(op.before)
            /\ \A i \in 1..Len(m_state) :
                  m_state[i] = op.before[i] +
                      op.n * (Count(rx.products, i) - Count(rx.reactants, i))

\* C18: advanceState(state, n) runs to its end for every state and n, with no
\* validity check, and has then added to each species of both classes n times
\* its net change, leaving the species the reaction does not touch unchanged.
C18_AdvanceStateNeverValidates ==
    op.name = "advanceState" => (op.completed /\ NetChangeApplied)

\* The net change of species i of the class the reactants are in.
OpNetChange(i) ==
    IF op.variant = "dual"
    THEN Count(op.reactions[1].rhsReactives, i) - Count(op.reactions[1].lhsReactives, i)
    ELSE Count(op.reactions[1].products, i) - Count(op.reactions[1].reactants, i)

OpConsumed == {i \in 1..Len(OpPopulations) : OpNetChange(i) < 0}

OpBeforeValid == IF op.variant = "dual" THEN isValidState(op.before)
                 ELSE isValidStateSingle(op.before)

\* The populations, of the reactants' class, after numReactions firings.
OpAdvanced(numReactions) ==
    IF op.variant = "dual"
    THEN advanceState(op.reactions[1], op.before, numReactions).reactive
    ELSE advanceStateSingle(op.reactions[1], op.before, numReactions)

\* C17: for a valid state L = computeCriticalNumberOfReactions(state) is the
\* minimum of floor(population / |nu|) over the species with negative net
\* change nu (the maximal integer when there is none); L firings leave every
\* consumed species non-negative and L + 1 firings make one of them negative.
C17_CriticalNumberIsLastSafeCount ==
    (op.name = "computeCriticalNumberOfReactions" /\ OpBeforeValid) =>
        LET L == op.out
        IN IF OpConsumed = {} THEN L = TMax
           ELSE /\ \A i \in OpConsumed : L <= OpPopulations[i] \div (-OpNetChange(i))
                /\ \E i \in OpConsumed : L = OpPopulations[i] \div (-OpNetChange(i))
                /\ \A i \in OpConsumed : OpAdvanced(L)[i] >= 0
                /\ \E i \in OpConsumed : OpAdvanced(L + 1)[i] < 0

\* One firing is left of a reaction that consumes two of a species with a
\* population of three.
C17_Witness ==
    /\ op.name = "computeCriticalNumberOfReactions" /\ OpBeforeValid
    /\ op.out = 1
    /\ \E i \in OpConsumed : OpNetChange(i) = -2 /\ OpPopulations[i] = 3

\* C19: isValidState returns true iff every population entry of the state is
\* >= 0; for the dual-state variant the entries of both classes count.
C19_ValidIffNoNegativeEntry ==
    op.name = "isValidState" =>
        /\ op.out \in BOOLEAN
        /\ op.out <=>
              IF op.variant = "dual"
              THEN /\ \A i \in 1..NumReactive : op.before.reactive[i] >= 0
                   /\ \A i \in 1..NumNonReactive : op.before.nonReactive[i] >= 0
              ELSE \A i \in 1..Len(op.before) : op.before[i] >= 0
        /\ Operand = op.before

\* A dual state found invalid whose only negative entry is reactive, the
\* first reactive entry and the non-reactive ones being positive.
C19_Witness ==
    /\ op.name = "isValidState" /\ op.variant = "dual" /\ op.out = FALSE
    /\ op.before.reactive[1] > 0 /\ op.before.reactive[NumReactive] < 0
    /\ \A i \in 1..NumNonReactive : op.before.nonReactive[i] > 0

\* linearOut of the operand, and of the operand after linearIn(v).
OperandOut == IF op.variant = "dual" THEN linearOut(a_state) ELSE linearOutSingle(m_state)
OperandIn(v) == IF op.variant = "dual" THEN linearIn(a_state, v)
                ELSE linearInSingle(m_state, v)

\* C20: linearOut returns the reactive populations in index order followed by
\* the non-reactive ones in index order and does not modify the state;
\* linearIn(linearOut(s)) leaves s unchanged; and after linearIn(v), for a
\* vector v of the state's length (which linearIn of either variant then
\* leaves as it was), linearOut returns v.
C20_LinearInInvertsLinearOut ==
    /\ op.name = "linearOut" =>
          /\ Operand = op.before
          /\ IF op.variant = "dual"
             THEN /\ Len(op.out) = NumReactive + NumNonReactive
                  /\ \A i \in 1..NumReactive : op.out[i] = op.before.reactive[i]
                  /\ \A i \in 1..NumNonReactive :
                        op.out[NumReactive + i] = op.before.nonReactive[i]
             ELSE op.out = op.before
    /\ (op.name = "linearIn" /\ Len(op.v) = Len(OperandOut)) => OperandOut = op.v
    /\ pc = "operand" => OperandIn(OperandOut) = Operand

\* linearIn of a vector whose entries differ, on a state that held other values.
C20_Witness ==
    /\ op.name = "linearIn" /\ op.variant = "dual"
    /\ op.v = <<MaxOperand, -1, MaxOperand>>
    /\ \A i \in 1..Len(op.v) : linearOut(op.before)[i] # op.v[i]
    /\ a_state = KMCDualState(<<MaxOperand, -1>>, <<MaxOperand>>)

\* The number of entries of the state object the last operation was applied to.
OpSize == IF op.variant = "dual" THEN Len(linearOut(op.before)) ELSE Len(op.before)

\* C21: the number of entries of a state, per class, is what it was
\* constructed with after every operation, and linearIn with a vector of
\* another length is rejected and leaves the state as it was.
C21_SpeciesCountFixed ==
    /\ Len(a_state.reactive) = NumReactive
    /\ Len(a_state.nonReactive) = NumNonReactive
    /\ Len(m_state) = NumSpecies
    /\ (op.name = "linearIn" /\ Len(op.v) # OpSize) =>
          (~op.completed /\ Operand = op.before)

\* C26: whenever stepExplicitEuler is called from advanceTau or advanceHybrid
\* (requested increment positive), the step it is handed is strictly
\* positive, so that CH_assert(a_dt > 0.0) holds.
C26_LeapStepPositive ==
    (pc = "leap" /\ a_leapPropagator = "ExplicitEuler" /\ a_dt > 0) => curDt > 0

\* C25: every advanceState call the solver makes starts and ends on a valid
\* state.  The explicit leap primitives change the trial state through
\* advanceState only, one call per reaction, so the state they leave behind
\* is the state at the end of their last call and has no negative population.
C25_SolverCallsKeepValid ==
    (/\ pc = "check"
     /\ a_leapPropagator \in {"ExplicitEuler", "Midpoint", "PRC"}
     /\ Len(leapReactions) > 0
     /\ isValidState(state0)) => isValidState(state)

\* C27: stepSSA on a valid state and a non-empty list selects a reaction
\* whose propensity is strictly positive, and the state after the firing is
\* valid.
C27_SSAFiresPositivePropensity ==
    (op.name = "stepSSA" /\ Len(op.reactions) > 0 /\ isValidState(op.before)) =>
        /\ propensities(op.before, op.reactions)[op.out] > 0
        /\ isValidState(a_state)

\* The change of entry i of the linearized state by one firing of rx
\* (products minus reactants).
StateChange(rx, i) ==
    IF i <= NumReactive THEN Count(rx.rhsReactives, i) - Count(rx.lhsReactives, i)
    ELSE Count(rx.rhsNonReactives, i - NumReactive)

\* x + sum_j k[j] * stateChange_j for a linearized state x.
PlusFirings(x, reactions, k) ==
    [i \in 1..Len(x) |->
        x[i] + SumSeq([j \in 1..Len(reactions) |-> k[j] * StateChange(reactions[j], i)])]

\* The input of the last leap primitive advanced by ceil(0.5 * a_j(x) * dt)
\* firings of each reaction.
Predictor ==
    linearIn(op.before,
             PlusFirings(linearOut(op.before), op.reactions,
                 [j \in 1..Len(op.reactions) |->
                     CeilDiv(propensity(op.reactions[j], op.before) * op.n, 2 * TimeDen)]))

\* C22: the state after stepMidpoint is the input state plus the sum over the
\* reactions of k_j * stateChange_j, where k_j is drawn with mean
\* a_j(Xdagger) * dt and Xdagger is the input advanced by
\* ceil(0.5 * a_j(x) * dt) firings of each reaction.
C22_MidpointAppliesToInput ==
    op.name = "stepMidpoint" =>
        /\ linearOut(a_state) = PlusFirings(linearOut(op.before), op.reactions, op.v)
        /\ \A j \in 1..Len(op.reactions) :
              /\ op.out[j] = propensity(op.reactions[j], Predictor) * op.n
              /\ op.v[j] \in getPoisson(op.out[j])

\* stepMidpoint has fired two reactions from a predictor state that differs
\* from the input, and the result is not what the firings give from there.
C22_Witness ==
    /\ op.name = "stepMidpoint" /\ Len(op.reactions) = 2
    /\ Predictor # op.before
    /\ \A j \in 1..2 : op.v[j] > 0
    /\ linearOut(a_state) # PlusFirings(linearOut(Predictor), op.reactions, op.v)

\* The bound min(f / mu, f^2 / sigma2), f = max(eps * X_i / 4, 1), of reactive
\* species i for the state and list of the last operation, in ticks (no
\* bound, RealMax, when mu or sigma2 is zero or f is beyond every number).
SpeciesBound(i) ==
    LET Xi     == op.before.reactive[i]
        a      == propensities(op.before, op.reactions)
        mu     == SumSeq([j \in 1..Len(op.reactions) |->
                            Abs(StateChange(op.reactions[j], i) * a[j])])
        sigma2 == SumSeq([j \in 1..Len(op.reactions) |->
                            Abs(StateChange(op.reactions[j], i)
                                * StateChange(op.reactions[j], i) * a[j])])
        f4     == Max(m_eps * Xi, 4)
        noBound == m_eps = EpsMax /\ Xi > 0
    IN Min(IF mu > 0 /\ ~noBound THEN Ticks(f4, 4 * mu) ELSE RealMax,
           IF sigma2 > 0 /\ ~noBound THEN Ticks(f4 * f4, 16 * sigma2) ELSE RealMax)

\* C23: getNonCriticalTimeStep returns no more than the bound of every
\* species that some reaction of the list changes (as a reactant or only as a
\* product, whatever its population), and the maximal real for an empty list.
C23_StepWithinEverySpeciesBound ==
    (op.name = "getNonCriticalTimeStep" /\ isValidState(op.before)) =>
        /\ Len(op.reactions) = 0 => op.out = RealMax
        /\ \A i \in 1..NumReactive :
              (\E j \in 1..Len(op.reactions) : StateChange(op.reactions[j], i) # 0)
                  => op.out <= SpeciesBound(i)

\* C28: a pass of advanceSSA on a valid state fires a reaction only when
\* curDt + nextDt <= a_dt, and fires none, leaving the state as it was, when
\* the total propensity of the list is zero in the current state.
C28_SSAFiresWithinStepOnly ==
    (op.name = "advanceSSA" /\ isValidState(op.before)) =>
        /\ op.out > 0 => op.n + op.u <= a_dt
        /\ totalPropensity(op.before, op.reactions) = 0 =>
              (op.out = 0 /\ a_state = op.before)

\* The residual X - C - dt * sum_j nu_j * a_j(X) of a reaction list at the
\* iterate X for the input state s (times TimeDen), with a_j and nu_j both
\* of that list.
ResidualOf(X, C, s, reactions, dt) ==
    LET a == propensities(linearIn(s, X), reactions)
    IN [i \in 1..Len(X) |->
          TimeDen * (X[i] - C[i])
          - SumSeq([j \in 1..Len(reactions) |-> dt * StateChange(reactions[j], i) * a[j]])]

\* C29: the residual stepImplicitEuler evaluates is that of the reaction
\* list passed as argument; reactions of the solver's own list that are not
\* in the passed list do not enter it.
C29_ResidualOfPassedList ==
    op.name = "computeF" =>
        op.out = ResidualOf(op.v, linearOut(op.before), op.before, op.reactions, op.n)

\* C30: in stepExplicitEuler, stepMidpoint and stepPRC called on a valid
\* state with a positive step, the mean handed to the Poisson sampler is
\* non-negative for every reaction.
C30_PoissonMeansNonNegative ==
    (/\ op.name \in {"stepExplicitEuler", "stepMidpoint", "stepPRC"}
     /\ isValidState(op.before) /\ op.n > 0) =>
        \A j \in 1..Len(op.reactions) : op.out[j] >= 0

====
